---- MODULE Spec2Model ----
(***************************************************************************)
(* Model of opencv-measure, src/measure_lines3.py                          *)
(* (class MeasureLinesIntegratedGUI): the Tk control panel that edits the  *)
(* shared config dictionary on the UI thread, and the measurement worker   *)
(* thread that reads it, calibrates on the first frame and then cycles.    *)
(*                                                                         *)
(* Numbers.  Python floats are kept as fixed-point hundredths in a record  *)
(* [nan, t]: 0.2 is [nan |-> FALSE, t |-> 20], float("nan") is             *)
(* [nan |-> TRUE, t |-> 0].  Every comparison with a NaN is false, as in   *)
(* IEEE 754.  Python ints (NUM_ROWS, TARGET_FPS) are TLA+ integers.        *)
(* Entry texts are sequences of one-character strings.                     *)
(***************************************************************************)
EXTENDS Integers, Sequences, FiniteSets, TLC

VARIABLES
    config,          \* self.config: key -> value
    settings_file,   \* measure_lines_settings.json: <<>> absent, <<doc>> kept
    entries,         \* self.entries: key -> [text, state] of the Entry widget
    current_entry,   \* self.current_entry (None or a key)
    error_label,     \* text of self.error_display_label
    timers,          \* pending root.after callbacks: name -> count
    running,         \* self.running
    cap,             \* self.cap: 0 is None, n the VideoCapture thread n made
    cap_state,       \* per VideoCapture object: "none", "open", "rewound"
                     \* (open, set back to its first frame), "released"
    video_thread,    \* self.video_thread: 0 is None, n the n-th Thread
    thread,          \* per worker thread: its position and locals
    ui,              \* UI thread: position inside a blocking handler, locals
    bg_mean,         \* self.bg_mean
    initial_width,   \* self.initial_width
    avg_width_1s,    \* self.avg_width_1s
    width_buffer,    \* self.width_buffer
    status_label,    \* text of self.status_label
    idle_queue,      \* Tk after_idle callbacks not yet run
    canvas,          \* what display_frame last put on the canvas
    since_last,      \* whole seconds since self.last_time, saturating at 1
    confirm_visible, \* the "Are you sure?" YES/NO confirmation is packed
    destroyed,       \* root.destroy() was called
    getter,          \* bg_color_getter.py: position of main and its locals
    bg_color_file,   \* avg_bg_color.json: NoFile or <<contents>>
    script           \* measure_lines.py: position of main, its capture and
                     \* the Esc key press its window has not yet handled

vars == <<config, settings_file, entries, current_entry, error_label, timers,
          running, cap, cap_state, video_thread, thread, ui, bg_mean,
          initial_width, avg_width_1s, width_buffer, status_label,
          idle_queue, canvas, since_last, confirm_visible, destroyed,
          getter, bg_color_file, script>>

getterVars == <<getter, bg_color_file, script>>
uiVars == <<config, settings_file, entries, current_entry, error_label, timers>>
loopVars == <<running, cap, cap_state, video_thread, thread, ui, bg_mean,
              initial_width, avg_width_1s, width_buffer, status_label,
              idle_queue, canvas, since_last, confirm_visible, destroyed>>

None == "None"
NoFile == <<>>

(***************************************************************************)
(* Floats                                                                  *)
(***************************************************************************)
F(t) == [nan |-> FALSE, t |-> t]
NaN == [nan |-> TRUE, t |-> 0]
FLt(a, b) == ~a.nan /\ ~b.nan /\ a.t < b.t
FGt(a, b) == ~a.nan /\ ~b.nan /\ a.t > b.t
FGe(a, b) == ~a.nan /\ ~b.nan /\ a.t >= b.t
FAdd(a, b) == IF a.nan \/ b.nan THEN NaN ELSE F(a.t + b.t)

(***************************************************************************)
(* Texts: str(), int() and float() on entry texts                          *)
(***************************************************************************)
DigitSeq == <<"0", "1", "2", "3", "4", "5", "6", "7", "8", "9">>
Digits == {DigitSeq[i] : i \in DOMAIN DigitSeq}
DigitVal(c) == (CHOOSE i \in DOMAIN DigitSeq : DigitSeq[i] = c) - 1

RECURSIVE NatOfDigits(_)
NatOfDigits(s) ==
    IF s = <<>> THEN 0
    ELSE 10 * NatOfDigits(SubSeq(s, 1, Len(s) - 1)) + DigitVal(s[Len(s)])

RECURSIVE NatText(_)
NatText(n) ==
    IF n < 10 THEN <<DigitSeq[n + 1]>>
    ELSE NatText(n \div 10) \o <<DigitSeq[(n % 10) + 1]>>

AllDigits(s) == \A i \in DOMAIN s : s[i] \in Digits
Unsigned(s) == IF s # <<>> /\ s[1] = "-" THEN Tail(s) ELSE s
Negative(s) == s # <<>> /\ s[1] = "-"

\* int(text) succeeds: an optional sign and at least one digit, nothing else.
IntOk(s) == Unsigned(s) # <<>> /\ AllDigits(Unsigned(s))
IntOf(s) ==
    IF Negative(s) THEN 0 - NatOfDigits(Unsigned(s)) ELSE NatOfDigits(s)

DotPos(s) == {i \in DOMAIN s : s[i] = "."}
IntPart(s) == IF DotPos(s) = {} THEN s
              ELSE SubSeq(s, 1, (CHOOSE i \in DotPos(s) : TRUE) - 1)
FracPart(s) == IF DotPos(s) = {} THEN <<>>
               ELSE SubSeq(s, (CHOOSE i \in DotPos(s) : TRUE) + 1, Len(s))
IsNanText(s) == s = <<"n", "a", "n">>
IsDecimal(s) ==
    /\ Cardinality(DotPos(s)) <= 1
    /\ AllDigits(IntPart(s)) /\ AllDigits(FracPart(s))
    /\ Len(IntPart(s)) + Len(FracPart(s)) >= 1

\* float(text) succeeds: an optional sign, then "nan" or a decimal numeral.
FloatOk(s) == IsNanText(Unsigned(s)) \/ IsDecimal(Unsigned(s))

\* The numeral has no digit beyond hundredths, so its value is kept exactly.
FloatExact(s) == Len(FracPart(Unsigned(s))) <= 2

Hundredths(fr) ==
    IF Len(fr) = 0 THEN 0
    ELSE IF Len(fr) = 1 THEN 10 * DigitVal(fr[1])
    ELSE 10 * DigitVal(fr[1]) + DigitVal(fr[2])

FloatOf(s) ==
    LET u == Unsigned(s)
        m == 100 * NatOfDigits(IntPart(u)) + Hundredths(FracPart(u))
    IN IF IsNanText(u) THEN NaN
       ELSE F(IF Negative(s) THEN 0 - m ELSE m)

\* str(value) of a Python int.
StrInt(n) == IF n < 0 THEN <<"-">> \o NatText(0 - n) ELSE NatText(n)

\* str(value) of a Python float: shortest repr, at least one decimal.
StrFloat(v) ==
    IF v.nan THEN <<"n", "a", "n">>
    ELSE LET a == IF v.t < 0 THEN 0 - v.t ELSE v.t
             sign == IF v.t < 0 THEN <<"-">> ELSE <<>>
             fr == a % 100
             frac == IF fr % 10 = 0 THEN NatText(fr \div 10)
                     ELSE NatText(fr \div 10) \o NatText(fr % 10)
         IN sign \o NatText(a \div 100) \o <<".">> \o frac

(***************************************************************************)
(* Config                                                                  *)
(***************************************************************************)
IntKeys == {"NUM_ROWS", "TARGET_FPS"}
MarginKeys == {"TOP_MARGIN_RATIO", "BOTTOM_MARGIN_RATIO"}
FloatKeys == MarginKeys \cup {"COLOR_THRESH", "WIDTH_THRESHOLD"}
Keys == IntKeys \cup FloatKeys

default_config ==
    [k \in Keys |->
        CASE k = "NUM_ROWS" -> 5
          [] k = "COLOR_THRESH" -> F(22000)
          [] k = "TARGET_FPS" -> 20
          [] k = "TOP_MARGIN_RATIO" -> F(20)
          [] k = "BOTTOM_MARGIN_RATIO" -> F(60)
          [] k = "WIDTH_THRESHOLD" -> F(500)]

\* str(self.config[key]) as the entry boxes show it.
StrValue(key, v) == IF key \in IntKeys THEN StrInt(v) ELSE StrFloat(v)

(***************************************************************************)
(* submit_value: conversion and validation of the entry text               *)
(***************************************************************************)
Accept(v) == [ok |-> TRUE, value |-> v, msg |-> ""]
Reject(m) == [ok |-> FALSE, value |-> 0, msg |-> m]

\* Weakened variants of the two margin tests below: the range test without
\* its lower bound, and the combined test with > in place of >=.
MarginAboveOnly(value) == FGt(value, F(90))
MarginsAboveOne(temp_config) ==
    FGt(FAdd(temp_config["TOP_MARGIN_RATIO"],
             temp_config["BOTTOM_MARGIN_RATIO"]), F(100))

\* line 773: the range test of a margin ratio (TRUE raises ValueError).
MarginOutOfRange(value) == FLt(value, F(0)) \/ FGt(value, F(90))

\* lines 788-790: the combined-margin test on a copy of the config.
MarginsTooLarge(temp_config) ==
    FGe(FAdd(temp_config["TOP_MARGIN_RATIO"],
             temp_config["BOTTOM_MARGIN_RATIO"]), F(100))

\* lines 763-784: the value converted from the text, or the ValueError.
Convert(key, s) ==
    IF key \in IntKeys
    THEN IF ~IntOk(s) THEN Reject("invalid literal for int()")
         ELSE IF key = "NUM_ROWS"
         THEN IF IntOf(s) < 1 \/ IntOf(s) > 100
              THEN Reject("NUM_ROWS must be between 1 and 100")
              ELSE Accept(IntOf(s))
         ELSE IF IntOf(s) < 1 \/ IntOf(s) > 60
              THEN Reject("TARGET_FPS must be between 1 and 60")
              ELSE Accept(IntOf(s))
    ELSE IF ~FloatOk(s) THEN Reject("could not convert string to float")
         ELSE IF key \in MarginKeys
         THEN IF MarginOutOfRange(FloatOf(s))
              THEN Reject("Margin ratios must be between 0.0 and 0.9")
              ELSE Accept(FloatOf(s))
         ELSE IF key = "COLOR_THRESH"
         THEN IF FLt(FloatOf(s), F(100)) \/ FGt(FloatOf(s), F(50000))
              THEN Reject("COLOR_THRESH must be between 1.0 and 500.0")
              ELSE Accept(FloatOf(s))
         ELSE IF key = "WIDTH_THRESHOLD"
         THEN IF FLt(FloatOf(s), F(10)) \/ FGt(FloatOf(s), F(10000))
              THEN Reject("WIDTH_THRESHOLD must be between 0.1 and 100.0")
              ELSE Accept(FloatOf(s))
         ELSE Accept(FloatOf(s))

\* lines 758-791: conversion, then the cross-field test for the margins.
Validate(key, s, cfg) ==
    LET r == Convert(key, s)
    IN IF r.ok /\ key \in MarginKeys
          /\ MarginsTooLarge([cfg EXCEPT ![key] = r.value])
       THEN Reject("Combined margins must be < 1.0")
       ELSE r

(***************************************************************************)
(* Entry widgets and timers                                                *)
(***************************************************************************)
\* entry.delete(0, END); entry.insert(0, t): Tk ignores both on a disabled
\* Entry.
EntryPut(e, t) == IF e.state = "normal" THEN [e EXCEPT !.text = t] ELSE e

TimerNames == {"reset_entry_colors", "poweroff_cancelled"}
After(name) == [timers EXCEPT ![name] = @ + 1]

UIIdle == ui.pc = "idle" /\ ~destroyed

\* select_entry(key), bound to <Button-1> on each entry.
select_entry(key) ==
    /\ UIIdle
    /\ current_entry' = key
    /\ error_label' = <<>>
    /\ entries' = [k \in DOMAIN entries |->
                     [entries[k] EXCEPT
                        !.state = IF k = key THEN "normal" ELSE "disabled"]]
    /\ UNCHANGED <<config, settings_file, timers>>
    /\ UNCHANGED loopVars
    /\ UNCHANGED getterVars

\* numpad_input(digit), the numpad buttons 0-9 and ".".
numpad_input(digit) ==
    /\ UIIdle
    /\ IF current_entry = None
       THEN UNCHANGED <<entries, error_label>>
       ELSE IF Len(entries[current_entry].text) >= 10
       THEN /\ error_label' =
                 <<current_entry, "Maximum 10 characters allowed">>
            /\ UNCHANGED entries
       ELSE /\ entries' =
                 [entries EXCEPT ![current_entry] =
                     EntryPut(@, @.text \o <<digit>>)]
            /\ UNCHANGED error_label
    /\ UNCHANGED <<config, settings_file, current_entry, timers>>
    /\ UNCHANGED loopVars
    /\ UNCHANGED getterVars

\* A key typed on the keyboard into the entry that has the focus (the
\* enabled one); validate_entry_length stops the text at 20 characters.
keypress(ch) ==
    /\ UIIdle
    /\ \E k \in DOMAIN entries :
         /\ entries[k].state = "normal"
         /\ Len(entries[k].text) < 20
         /\ entries' = [entries EXCEPT ![k] = EntryPut(@, @.text \o <<ch>>)]
    /\ UNCHANGED <<config, settings_file, current_entry, error_label, timers>>
    /\ UNCHANGED loopVars
    /\ UNCHANGED getterVars

\* clear_input, the numpad button C.
clear_input ==
    /\ UIIdle
    /\ IF current_entry = None
       THEN UNCHANGED entries
       ELSE entries' = [entries EXCEPT ![current_entry] = EntryPut(@, <<>>)]
    /\ UNCHANGED <<config, settings_file, current_entry, error_label, timers>>
    /\ UNCHANGED loopVars
    /\ UNCHANGED getterVars

\* The text json.dump writes for a value of the field key, and the value
\* json.load reads from the text of a number: a float when the numeral has a
\* fraction or is NaN, else an int.
JsonNaN == <<"N", "a", "N">>
JsonText(key, v) ==
    IF key \in IntKeys THEN StrInt(v)
    ELSE IF v.nan THEN JsonNaN ELSE StrFloat(v)
JsonValue(text) ==
    IF text = JsonNaN THEN NaN
    ELSE IF DotPos(text) # {} THEN FloatOf(text)
    ELSE IntOf(text)

\* A settings file that is no JSON document.
Unreadable == [valid |-> FALSE, items |-> <<>>]

\* save_settings: json.dump(self.config) into the settings file.
save_settings(cfg) ==
    <<[valid |-> TRUE, items |-> [k \in DOMAIN cfg |-> JsonText(k, cfg[k])]]>>

\* submit_value, the Submit button.  A field the config no longer holds
\* makes line 760 raise KeyError, which the handler does not catch.
submit_value ==
    /\ UIIdle
    /\ IF current_entry = None
       THEN UNCHANGED uiVars
       ELSE IF entries[current_entry].text = <<>>
       THEN UNCHANGED uiVars
       ELSE IF current_entry \notin DOMAIN config
       THEN UNCHANGED uiVars
       ELSE LET key == current_entry
                r == Validate(key, entries[key].text, config)
            IN IF r.ok
               THEN /\ config' = [config EXCEPT ![key] = r.value]
                    /\ entries' =
                         [entries EXCEPT ![key] =
                            [EntryPut(@, StrValue(key, r.value))
                                EXCEPT !.state = "disabled"]]
                    /\ settings_file' = save_settings(config')
                    /\ current_entry' = None
                    /\ timers' = After("reset_entry_colors")
                    /\ UNCHANGED error_label
               ELSE /\ error_label' = <<key, r.msg>>
                    /\ entries' =
                         [entries EXCEPT ![key] =
                            EntryPut(@, StrValue(key, config[key]))]
                    /\ timers' = After("reset_entry_colors")
                    /\ UNCHANGED <<config, settings_file, current_entry>>
    /\ UNCHANGED loopVars
    /\ UNCHANGED getterVars

\* reset_entry_colors, the callback of root.after(1000 | 2000 | 3000).
reset_entry_colors ==
    /\ UIIdle
    /\ timers["reset_entry_colors"] > 0
    /\ timers' = [timers EXCEPT !["reset_entry_colors"] = @ - 1]
    /\ entries' = [k \in DOMAIN entries |->
                     [entries[k] EXCEPT !.state = "disabled"]]
    /\ error_label' = <<>>
    /\ UNCHANGED <<config, settings_file, current_entry>>
    /\ UNCHANGED loopVars
    /\ UNCHANGED getterVars

\* cancel_input, the Cancel button.  For a field the config no longer
\* holds, str(self.config[...]) raises KeyError after the entry was emptied,
\* and the handler ends there.
cancel_input ==
    /\ UIIdle
    /\ IF current_entry = None
       THEN UNCHANGED entries /\ current_entry' = None
       ELSE IF current_entry \notin DOMAIN config
       THEN /\ entries' = [entries EXCEPT ![current_entry] = EntryPut(@, <<>>)]
            /\ UNCHANGED current_entry
       ELSE /\ entries' =
                 [entries EXCEPT ![current_entry] =
                    [EntryPut(@, StrValue(current_entry, config[current_entry]))
                        EXCEPT !.state = "disabled"]]
            /\ current_entry' = None
    /\ UNCHANGED <<config, settings_file, error_label, timers>>
    /\ UNCHANGED loopVars
    /\ UNCHANGED getterVars

\* reset_all_settings, the Reset All button.  The entries are gone through
\* in the order of the config they were made from, the declared fields
\* first.  An entry of a field the defaults do not hold is enabled and
\* emptied, and then str(self.config[key]) raises KeyError: the handler
\* shows the failure and leaves the rest as it was.
reset_all_settings ==
    /\ UIIdle
    /\ config' = default_config
    /\ IF DOMAIN entries = Keys
       THEN /\ entries' = [k \in Keys |->
                             [text |-> StrValue(k, default_config[k]),
                              state |-> "disabled"]]
            /\ current_entry' = None
            /\ error_label' = <<"All settings reset to defaults!">>
            /\ timers' = After("reset_entry_colors")
       ELSE /\ \E first \in DOMAIN entries \ Keys :
                 entries' = [k \in DOMAIN entries |->
                               IF k \in Keys
                               THEN [text |-> StrValue(k, default_config[k]),
                                     state |-> "disabled"]
                               ELSE IF k = first
                               THEN [text |-> <<>>, state |-> "normal"]
                               ELSE entries[k]]
            /\ error_label' = <<"Reset failed">>
            /\ UNCHANGED <<current_entry, timers>>
    /\ UNCHANGED settings_file
    /\ UNCHANGED loopVars
    /\ UNCHANGED getterVars

(***************************************************************************)
(* Frames and the per-frame geometry                                       *)
(*                                                                         *)
(* A frame the source yields is kept by its height, by bg, the colour      *)
(* estimate_bg_from_row returns for it, and by its foreground mask (the    *)
(* boolean array mask_full the thresholding and the morphology derive from *)
(* its pixels).  The mask is kept as a short sequence of rows, each a      *)
(* function from the columns 0..FrameWidth-1 to BOOLEAN, repeated down the *)
(* frame.  All three are arbitrary inputs.                                 *)
(***************************************************************************)
FrameHeight == 100
FrameWidth == 8

\* The mask row whose true cells are the columns xs.
Row(xs) == [x \in 0..(FrameWidth - 1) |-> x \in xs]

\* mask_full[y, :]
MaskRow(frame, y) == frame.rows[(y % Len(frame.rows)) + 1]

\* A line 1 pixel wide and a line 7 pixels wide, on different backgrounds.
Narrow == [h |-> FrameHeight, bg |-> <<200, 200, 200>>,
           rows |-> <<Row({3, 4})>>]
Wide == [h |-> FrameHeight, bg |-> <<30, 30, 30>>, rows |-> <<Row({0, 7})>>]
Frames == {Narrow, Wide}

\* Rows without a true cell, with one, with gaps and with every cell true,
\* and rows without a true cell between rows with a line.
Assorted == [h |-> FrameHeight, bg |-> <<200, 200, 200>>,
             rows |-> <<Row({}), Row({3}), Row({1, 4, 6}),
                        Row(0..(FrameWidth - 1))>>]
Mixed == [h |-> FrameHeight, bg |-> <<200, 200, 200>>,
          rows |-> <<Row({}), Row({2, 5})>>]
WidthFrames == {Narrow, Wide, Assorted, Mixed}

\* A line 6 pixels wide: 5.0 wider than the narrow line.
Broad == [h |-> FrameHeight, bg |-> <<200, 200, 200>>,
          rows |-> <<Row({1, 7})>>]
AlertFrames == {Narrow, Wide, Broad}

\* Frames ScenarioWidth pixels wide whose rows all show one span: from
\* column 20 to column 70, and from column 10 to column 90.
ScenarioWidth == 100
SpanRow(first, last) ==
    [x \in 0..(ScenarioWidth - 1) |-> first <= x /\ x <= last]
Span50 == [h |-> FrameHeight, bg |-> <<200, 200, 200>>,
           rows |-> <<SpanRow(20, 70)>>]
Span80 == [h |-> FrameHeight, bg |-> <<200, 200, 200>>,
           rows |-> <<SpanRow(10, 90)>>]
NoFrame == [h |-> 0, bg |-> <<>>, rows |-> <<>>]

\* int(h * ratio) of lines 911-912 and 963-964, for a ratio that is no NaN.
MarginPixels(h, ratio) == (h * ratio.t) \div 100
Max0(x) == IF x < 0 THEN 0 ELSE x

\* Weakened variant of Region below: the configured margins are kept
\* whatever height they leave.
RegionOfMargins(h, top_m, bottom_m, num_rows) ==
    [top_m |-> top_m, end_y |-> h - bottom_m - 1,
     available_height |-> h - top_m - bottom_m]

\* lines 967-981: the fallbacks, from top_m, bottom_m and NUM_ROWS.
Region(h, top_m, bottom_m, num_rows) ==
    LET avail0 == h - top_m - bottom_m
        fb1 == avail0 < num_rows
        fb2 == fb1 /\ h - 20 < num_rows
        t1 == IF fb2 THEN 1 ELSE IF fb1 THEN 10 ELSE top_m
        b1 == IF fb2 THEN 1 ELSE IF fb1 THEN 10 ELSE bottom_m
        avail == IF fb2 THEN h - 2 ELSE IF fb1 THEN h - 20 ELSE avail0
        end0 == h - b1 - 1
    IN [top_m |-> IF end0 <= t1 THEN 0 ELSE t1,
        end_y |-> IF end0 <= t1 THEN h - 1 ELSE end0,
        available_height |-> avail]

Clip(y, lo, hi) == IF y < lo THEN lo ELSE IF y > hi THEN hi ELSE y

\* Weakened variant of SampleYs below: the rows run from end_y up to top_m.
SampleYsFromEnd(h, top_m, end_y, count) ==
    [i \in 1..count |->
        IF count = 1 THEN end_y
        ELSE end_y - ((i - 1) * (end_y - top_m)) \div (count - 1)]

\* lines 983-985: np.clip(np.linspace(top_m, end_y, count, dtype=int), 0, h-1)
\* for count >= 0 (a negative count raises ValueError).
SampleYs(h, top_m, end_y, count) ==
    [i \in 1..count |->
        Clip(IF count = 1 THEN top_m
             ELSE top_m + ((i - 1) * (end_y - top_m)) \div (count - 1),
             0, h - 1)]
Min(a, b) == IF a < b THEN a ELSE b

RECURSIVE SumInts(_)
SumInts(q) == IF q = <<>> THEN 0 ELSE q[1] + SumInts(Tail(q))

\* float(np.mean(values)) of a list of ints: NaN when the list is empty.
MeanOfInts(values) ==
    IF values = <<>> THEN NaN
    ELSE F((100 * SumInts(values)) \div Len(values))

\* Weakened variant of Mean below: the latest value.
Latest(values) == values[Len(values)]

\* float(np.mean(values)) of a non-empty list of floats.
Mean(values) ==
    LET RECURSIVE Sum(_)
        Sum(q) == IF q = <<>> THEN 0 ELSE q[1].t + Sum(Tail(q))
    IN IF \E i \in DOMAIN values : values[i].nan THEN NaN
       ELSE F(Sum(values) \div Len(values))

\* abs(a - b) of two floats.
AbsDiff(a, b) ==
    IF a.nan \/ b.nan THEN NaN
    ELSE F(IF a.t >= b.t THEN a.t - b.t ELSE b.t - a.t)

\* Weakened variant of RowWidth below: the true cells are counted.
RowCount(row) == Cardinality({x \in DOMAIN row : row[x]})

\* np.where(row)[0]: the columns of the true cells.
Xs(row) == {x \in DOMAIN row : row[x]}
First(xs) == CHOOSE x \in xs : \A z \in xs : x <= z
Last(xs) == CHOOSE x \in xs : \A z \in xs : z <= x

\* lines 1004-1009 (and 943-947): xs[-1] - xs[0], or 0 for a row without a
\* true cell.
RowWidth(row) == IF Xs(row) # {} THEN Last(Xs(row)) - First(Xs(row)) ELSE 0

\* Weakened variant of PerWidths below: rows without a true cell are left
\* out.
PerWidthsOfSpans(frame, sample_ys) ==
    LET spans == SelectSeq(sample_ys,
                           LAMBDA y : Xs(MaskRow(frame, y)) # {})
    IN [i \in 1..Len(spans) |-> RowWidth(MaskRow(frame, spans[i]))]

\* lines 996-1012: per_widths, one width per sample row inside the frame.
PerWidths(frame, sample_ys) ==
    LET inside == SelectSeq(sample_ys, LAMBDA y : ~(y < 0 \/ y >= frame.h))
    IN [i \in 1..Len(inside) |-> RowWidth(MaskRow(frame, inside[i]))]

\* line 1014: frame_avg = float(np.mean(per_widths))
FrameAvg(frame, sample_ys) == MeanOfInts(PerWidths(frame, sample_ys))

(***************************************************************************)
(* The segmenter, for frames that are kept with their pixels               *)
(*                                                                         *)
(* Such a frame is square, MaskSize pixels a side; pixels maps <<x, y>> to *)
(* the colour <<b, g, r>> of the pixel.  A mask is the set of its true     *)
(* pixels.                                                                 *)
(***************************************************************************)
MaskSize == 7
KernelSize == 5

Grid(size) == (0..(size - 1)) \X (0..(size - 1))
Reach == KernelSize \div 2

\* The pixels of the frame the kernel covers when it is centred on p.
Low(i) == IF i < Reach THEN 0 ELSE i - Reach
High(i, size) == IF i + Reach > size - 1 THEN size - 1 ELSE i + Reach
Window(p, size) ==
    (Low(p[1])..High(p[1], size)) \X (Low(p[2])..High(p[2], size))

\* cv2.erode and cv2.dilate with the kernel: pixels outside the frame do
\* not count (the default border value).  m ranges over the one mask, which
\* is evaluated once that way.
Erode(mask, size) ==
    UNION {{p \in m : Window(p, size) \subseteq m} : m \in {mask}}
Dilate(mask, size) == UNION {Window(p, size) : p \in mask}

\* Weakened variant of MorphOpen below: the mask is left as it is.
Unopened(mask, size) == mask

\* cv2.morphologyEx(mask, cv2.MORPH_OPEN, kernel) and (..., MORPH_CLOSE, ...)
MorphOpen(mask, size) == Dilate(Erode(mask, size), size)
MorphClose(mask, size) == Erode(Dilate(mask, size), size)

\* A colour of a frame, whose channels are whole numbers, in the hundredths
\* self.bg_mean is kept in.
Float32(colour) == <<100 * colour[1], 100 * colour[2], 100 * colour[3]>>

\* np.sum((pixel - bg_mean)**2), in hundredths squared
Diff2(colour, bg) ==
    (100 * colour[1] - bg[1]) * (100 * colour[1] - bg[1])
    + (100 * colour[2] - bg[2]) * (100 * colour[2] - bg[2])
    + (100 * colour[3] - bg[3]) * (100 * colour[3] - bg[3])

\* diff2 > thresh2, thresh2 = COLOR_THRESH**2
Thresholded(pixels, size, bg, thresh) ==
    {p \in Grid(size) :
        ~thresh.nan /\ Diff2(pixels[p], bg) > thresh.t * thresh.t}

\* lines 988-993: mask_full after the thresholding, and after the opening
\* and the closing.  A frame kept without pixels brings its mask along.
NoMask == [thresholded |-> {}, cleaned |-> {}]
MaskFull(frame, bg, thresh) ==
    IF "pixels" \in DOMAIN frame
    THEN CHOOSE mask \in
             {[thresholded |-> m,
               cleaned |-> MorphClose(MorphOpen(m, frame.h), frame.h)] :
              m \in {Thresholded(frame.pixels, frame.h, bg, thresh)}} : TRUE
    ELSE NoMask

\* The rows of a mask, as a frame kept without pixels brings them along.
RowsOf(mask, size) ==
    CHOOSE rows \in {[i \in 1..size |->
                         [x \in 0..(size - 1) |-> <<x, i - 1>> \in m]] :
                     m \in {mask}} : TRUE

\* Frames of one colour but for a rectangle that is one grey level off, and
\* the frame of one colour.
Ground == <<200, 200, 200>>
OffGround == <<200, 200, 201>>
Rectangles(size) ==
    {r \in [x0 : 0..(size - 1), x1 : 0..(size - 1),
            y0 : 0..(size - 1), y1 : 0..(size - 1)] :
        r.x0 <= r.x1 /\ r.y0 <= r.y1}
Picture(r, size) ==
    [p \in Grid(size) |->
        IF r.x0 <= p[1] /\ p[1] <= r.x1 /\ r.y0 <= p[2] /\ p[2] <= r.y1
        THEN OffGround ELSE Ground]
PixelFrame(pixels, size) ==
    [h |-> size, pixels |-> pixels,
     rows |-> RowsOf(MaskFull([h |-> size, pixels |-> pixels],
                              Float32(Ground), F(0)).cleaned, size)]
\* Frames whose middle row is made of a light, a dark and a dim colour, and
\* whose other rows have a colour of their own.
Light == <<200, 200, 200>>
Dark == <<30, 30, 30>>
Dim == <<60, 40, 20>>
Elsewhere == <<90, 120, 150>>
Banded(row, size) ==
    [p \in Grid(size) |->
        IF p[2] = size \div 2 THEN row[p[1]] ELSE Elsewhere]
RowFrames(size) ==
    {PixelFrame(Banded(row, size), size) :
        row \in [0..(size - 1) -> {Light, Dark, Dim}]}

Plain(size) == PixelFrame([p \in Grid(size) |-> Ground], size)
PixelFrames(size) == {PixelFrame(Picture(r, size), size) : r \in Rectangles(size)}

(***************************************************************************)
(* The measurement worker: run_measurement, one action per step            *)
(***************************************************************************)
MaxThreads == 2
MaxBuffer == 2
MaxQueue == 1
Threads == 1..MaxThreads

Unborn == [pc |-> "unborn", frame |-> NoFrame, top_m |-> 0, bottom_m |-> 0,
           end_y |-> 0, available_height |-> 0, sample_ys |-> <<>>,
           per_widths |-> <<>>, thresh |-> F(0), vis |-> "none",
           status |-> "", processing |-> 0, sleep_time |-> 0,
           mask |-> NoMask]

At(n, pc) == thread[n].pc = pc
Goto(n, pc) == thread' = [thread EXCEPT ![n].pc = pc]
Alive(n) == thread[n].pc \notin {"unborn", "failed", "done", "crashed"}
WorkerRuns(n) == Alive(n) /\ ~destroyed

\* cap.read() can succeed only on a capture that is open.
CanRead == cap # 0 /\ cap_state[cap] \in {"open", "rewound"}

\* line 958: self.cap.set(cv2.CAP_PROP_POS_FRAMES, 0), without effect on a
\* capture that is not open.
Rewind(c) == IF CanRead THEN [cap_state EXCEPT ![c] = "rewound"] ELSE cap_state

\* A successful read leaves the capture past its first frame.
Advance(c) == [cap_state EXCEPT ![c] = "open"]

\* Weakened variant of AfterFailedRead below: the loop is left.
LeaveLoop == "release"

\* line 959: continue, back to the test of self.running.
AfterFailedRead == "loop"

\* line 898: self.cap = cv2.VideoCapture(SOURCE)
w_open(n) ==
    /\ WorkerRuns(n) /\ At(n, "open")
    /\ cap' = n
    /\ cap_state' = [cap_state EXCEPT ![n] = "open"]
    /\ Goto(n, "read_first")
    /\ UNCHANGED <<running, video_thread, ui, bg_mean, initial_width,
                   avg_width_1s, width_buffer, status_label, idle_queue,
                   canvas, since_last, confirm_visible, destroyed>>
    /\ UNCHANGED uiVars
    /\ UNCHANGED getterVars

\* lines 899-902: the first read; on failure the status is set and the
\* thread returns (it is "failed" from then on).
w_read_first(n, source) ==
    /\ WorkerRuns(n) /\ At(n, "read_first")
    /\ \E ret \in BOOLEAN, first \in source :
         /\ ret => CanRead
         /\ IF ret
            THEN /\ thread' = [thread EXCEPT ![n].pc = "estimate",
                                             ![n].frame = first]
                 /\ UNCHANGED status_label
            ELSE /\ Goto(n, "failed")
                 /\ status_label' = "Status: Failed to open video"
    /\ UNCHANGED <<running, cap, cap_state, video_thread, ui, bg_mean,
                   initial_width, avg_width_1s, width_buffer, idle_queue,
                   canvas, since_last, confirm_visible, destroyed>>
    /\ UNCHANGED uiVars
    /\ UNCHANGED getterVars

(***************************************************************************)
(* estimate_bg_from_row, for frames that are kept with their pixels        *)
(***************************************************************************)
\* frame[y, :, :] with y = h // 2 (the frames are square)
MiddleRow(frame) ==
    [x \in 0..(frame.h - 1) |-> frame.pixels[<<x, frame.h \div 2>>]]

\* cv2.COLOR_BGR2GRAY of a float32 pixel, in thousandths
Gray(colour) == 114 * colour[1] + 587 * colour[2] + 299 * colour[3]

Abs(x) == IF x < 0 THEN -x ELSE x

RECURSIVE SumOver(_, _)
SumOver(f, xs) ==
    IF xs = {} THEN 0
    ELSE LET x == CHOOSE x \in xs : TRUE IN f[x] + SumOver(f, xs \ {x})

\* Every value of cluster own is as near to the centre of own as to the
\* centre of cluster other (a centre is the mean of its cluster).
Nearest(lum, own, other) ==
    LET n1 == Cardinality(own)
        n2 == Cardinality(other)
        s1 == SumOver(lum, own)
        s2 == SumOver(lum, other)
    IN \A x \in own :
           Abs(n1 * lum[x] - s1) * n2 <= Abs(n2 * lum[x] - s2) * n1

\* The labels cv2.kmeans can return for two clusters of the values lum, as
\* <<pixels of label 0, pixels of label 1>>.  The clusters are the two
\* sides of a cut through the values in which every value is assigned to
\* the nearest centre; which side is label 0 is up to the random
\* initialisation.  When all the values are equal the second cluster
\* would be empty, and it is given one pixel of the first.
KMeans(lum) ==
    LET xs == DOMAIN lum
        values == {lum[x] : x \in xs}
        sides == {{x \in xs : lum[x] <= v} : v \in values}
        cuts == {c \in sides : /\ c # xs
                                /\ Nearest(lum, c, xs \ c)
                                /\ Nearest(lum, xs \ c, c)}
    IN IF Cardinality(values) = 1
       THEN {<<xs \ {x}, {x}>> : x \in xs} \cup {<<{x}, xs \ {x}>> : x \in xs}
       ELSE {<<c, xs \ c>> : c \in cuts} \cup {<<xs \ c, c>> : c \in cuts}

\* Weakened variant of BgPixels below: the label with the fewest pixels.
FgPixels(labels) ==
    IF Cardinality(labels[2]) > Cardinality(labels[1])
    THEN labels[1] ELSE labels[2]

\* np.argmax(np.bincount(labels)): the first of the labels with the most
\* pixels.
BgPixels(labels) ==
    IF Cardinality(labels[2]) > Cardinality(labels[1])
    THEN labels[2] ELSE labels[1]

\* row[bg_mask].mean(axis=0), in hundredths
Channel(row, c) == [x \in DOMAIN row |-> row[x][c]]
MeanColour(row, xs) ==
    <<(100 * SumOver(Channel(row, 1), xs)) \div Cardinality(xs),
      (100 * SumOver(Channel(row, 2), xs)) \div Cardinality(xs),
      (100 * SumOver(Channel(row, 3), xs)) \div Cardinality(xs)>>

\* The colours estimate_bg_from_row can return for the frame.  A frame kept
\* without pixels brings its estimate along.
estimate_bg_from_row(frame) ==
    IF "pixels" \in DOMAIN frame
    THEN {MeanColour(row, BgPixels(labels)) :
            row \in {MiddleRow(frame)},
            labels \in KMeans([x \in 0..(frame.h - 1) |->
                                  Gray(MiddleRow(frame)[x])])}
    ELSE {frame.bg}

\* line 907: self.bg_mean = self.estimate_bg_from_row(first)
w_estimate(n) ==
    /\ WorkerRuns(n) /\ At(n, "estimate")
    /\ bg_mean' \in estimate_bg_from_row(thread[n].frame)
    /\ Goto(n, "baseline")
    /\ UNCHANGED <<running, cap, cap_state, video_thread, ui, initial_width,
                   avg_width_1s, width_buffer, status_label, idle_queue,
                   canvas, since_last, confirm_visible, destroyed>>
    /\ UNCHANGED uiVars
    /\ UNCHANGED getterVars

\* The config makes int(h * ratio), np.linspace or the subtraction of
\* self.bg_mean raise: the exception ends the thread.
Raises(h) ==
    \/ config["TOP_MARGIN_RATIO"].nan
    \/ config["BOTTOM_MARGIN_RATIO"].nan
    \/ LET r == Region(h, Max0(MarginPixels(h, config["TOP_MARGIN_RATIO"])),
                       Max0(MarginPixels(h, config["BOTTOM_MARGIN_RATIO"])),
                       config["NUM_ROWS"])
       IN Min(config["NUM_ROWS"], r.available_height) < 0

\* lines 911-933: sample_ys of the calibration, for a config that does not
\* raise.
CalibrationYs(h) ==
    LET r == Region(h, Max0(MarginPixels(h, config["TOP_MARGIN_RATIO"])),
                    Max0(MarginPixels(h, config["BOTTOM_MARGIN_RATIO"])),
                    config["NUM_ROWS"])
    IN SampleYs(h, r.top_m, r.end_y,
                Min(config["NUM_ROWS"], r.available_height))

\* lines 911-953: the initial width on the first frame, the seed of
\* avg_width_1s and the status.
w_baseline(n) ==
    /\ WorkerRuns(n) /\ At(n, "baseline")
    /\ IF Raises(thread[n].frame.h) \/ bg_mean = <<>>
       THEN /\ Goto(n, "crashed")
            /\ UNCHANGED <<initial_width, avg_width_1s, status_label>>
       ELSE /\ initial_width' =
                 FrameAvg(thread[n].frame, CalibrationYs(thread[n].frame.h))
            /\ avg_width_1s' = initial_width'
            /\ status_label' = "Status: Running"
            /\ Goto(n, "loop")
    /\ UNCHANGED <<running, cap, cap_state, video_thread, ui, bg_mean,
                   width_buffer, idle_queue, canvas, since_last,
                   confirm_visible, destroyed>>
    /\ UNCHANGED uiVars
    /\ UNCHANGED getterVars

\* line 955: while self.running
w_loop(n) ==
    /\ WorkerRuns(n) /\ At(n, "loop")
    /\ thread' = [thread EXCEPT
                    ![n].pc = IF running THEN "read" ELSE "release",
                    ![n].processing = 0,
                    ![n].sleep_time = 0]
    /\ UNCHANGED <<running, cap, cap_state, video_thread, ui, bg_mean,
                   initial_width, avg_width_1s, width_buffer, status_label,
                   idle_queue, canvas, since_last, confirm_visible, destroyed>>
    /\ UNCHANGED uiVars
    /\ UNCHANGED getterVars

\* lines 956-959: read a frame; on failure rewind and continue.
w_read(n, source) ==
    /\ WorkerRuns(n) /\ At(n, "read")
    /\ \E ret \in BOOLEAN, frame \in source :
         /\ ret => CanRead
         /\ IF ret
            THEN /\ thread' = [thread EXCEPT ![n].pc = "top",
                                             ![n].frame = frame]
                 /\ cap_state' = Advance(cap)
            ELSE /\ Goto(n, AfterFailedRead)
                 /\ cap_state' = Rewind(cap)
    /\ UNCHANGED <<running, cap, video_thread, ui, bg_mean,
                   initial_width, avg_width_1s, width_buffer, status_label,
                   idle_queue, canvas, since_last, confirm_visible, destroyed>>
    /\ UNCHANGED uiVars
    /\ UNCHANGED getterVars

\* Weakened variant of Current below: the value the field had at launch.
Launched(key) == default_config[key]

\* self.config[key] as the loop reads it in a cycle.
Current(key) == config[key]

\* lines 962-963: top_m from the current TOP_MARGIN_RATIO
w_top(n) ==
    /\ WorkerRuns(n) /\ At(n, "top")
    /\ IF Current("TOP_MARGIN_RATIO").nan
       THEN Goto(n, "crashed")
       ELSE thread' =
              [thread EXCEPT
                 ![n].pc = "bottom",
                 ![n].top_m = Max0(MarginPixels(thread[n].frame.h,
                                                Current("TOP_MARGIN_RATIO")))]
    /\ UNCHANGED <<running, cap, cap_state, video_thread, ui, bg_mean,
                   initial_width, avg_width_1s, width_buffer, status_label,
                   idle_queue, canvas, since_last, confirm_visible, destroyed>>
    /\ UNCHANGED uiVars
    /\ UNCHANGED getterVars

\* line 964: bottom_m from the current BOTTOM_MARGIN_RATIO
w_bottom(n) ==
    /\ WorkerRuns(n) /\ At(n, "bottom")
    /\ IF Current("BOTTOM_MARGIN_RATIO").nan
       THEN Goto(n, "crashed")
       ELSE thread' =
              [thread EXCEPT
                 ![n].pc = "region",
                 ![n].bottom_m =
                     Max0(MarginPixels(thread[n].frame.h,
                                       Current("BOTTOM_MARGIN_RATIO")))]
    /\ UNCHANGED <<running, cap, cap_state, video_thread, ui, bg_mean,
                   initial_width, avg_width_1s, width_buffer, status_label,
                   idle_queue, canvas, since_last, confirm_visible, destroyed>>
    /\ UNCHANGED uiVars
    /\ UNCHANGED getterVars

\* lines 967-981: the valid region, with the current NUM_ROWS
w_region(n) ==
    /\ WorkerRuns(n) /\ At(n, "region")
    /\ LET r == Region(thread[n].frame.h, thread[n].top_m,
                       thread[n].bottom_m, Current("NUM_ROWS"))
       IN thread' = [thread EXCEPT
                       ![n].pc = "sample",
                       ![n].top_m = r.top_m,
                       ![n].end_y = r.end_y,
                       ![n].available_height = r.available_height]
    /\ UNCHANGED <<running, cap, cap_state, video_thread, ui, bg_mean,
                   initial_width, avg_width_1s, width_buffer, status_label,
                   idle_queue, canvas, since_last, confirm_visible, destroyed>>
    /\ UNCHANGED uiVars
    /\ UNCHANGED getterVars

\* lines 983-995: the sample rows with the current NUM_ROWS, the mask with
\* the current COLOR_THRESH and self.bg_mean, and vis = frame.copy()
w_sample(n) ==
    /\ WorkerRuns(n) /\ At(n, "sample")
    /\ LET count == Min(Current("NUM_ROWS"), thread[n].available_height)
       IN IF count < 0 \/ bg_mean = <<>>
          THEN Goto(n, "crashed")
          ELSE thread' =
                 [thread EXCEPT
                    ![n].pc = "rows",
                    ![n].sample_ys = SampleYs(thread[n].frame.h,
                                              thread[n].top_m,
                                              thread[n].end_y, count),
                    ![n].thresh = Current("COLOR_THRESH"),
                    ![n].mask = MaskFull(thread[n].frame, bg_mean,
                                         Current("COLOR_THRESH")),
                    ![n].vis = "copy"]
    /\ UNCHANGED <<running, cap, cap_state, video_thread, ui, bg_mean,
                   initial_width, avg_width_1s, width_buffer, status_label,
                   idle_queue, canvas, since_last, confirm_visible, destroyed>>
    /\ UNCHANGED uiVars
    /\ UNCHANGED getterVars

\* lines 996-1015: the sample rows are measured and drawn on vis, and the
\* frame's mean width is appended to self.width_buffer.  The locals of the
\* geometry and the frame are not read again in this iteration: they are
\* cleared here.
w_rows(n) ==
    /\ WorkerRuns(n) /\ At(n, "rows")
    /\ Len(width_buffer) < MaxBuffer
    /\ width_buffer' =
         Append(width_buffer, FrameAvg(thread[n].frame, thread[n].sample_ys))
    /\ thread' = [thread EXCEPT
                    ![n] = [Unborn EXCEPT
                              !.pc = "flush",
                              !.vis = "rows",
                              !.per_widths = PerWidths(thread[n].frame,
                                                       thread[n].sample_ys)]]
    /\ UNCHANGED <<running, cap, cap_state, video_thread, ui, bg_mean,
                   initial_width, avg_width_1s, status_label, idle_queue,
                   canvas, since_last, confirm_visible, destroyed>>
    /\ UNCHANGED uiVars
    /\ UNCHANGED getterVars

\* Weakened variants of FlushDue below: every cycle flushes, and none does.
AlwaysDue(since) == TRUE
NeverDue(since) == FALSE

\* line 1018: now - self.last_time >= 1.0
FlushDue(since) == since >= 1

\* lines 1017-1021: once a second the buffer is averaged and cleared;
\* per_widths is not read again in this iteration.
w_flush(n) ==
    /\ WorkerRuns(n) /\ At(n, "flush")
    /\ IF FlushDue(since_last)
       THEN /\ avg_width_1s' = IF width_buffer # <<>> THEN Mean(width_buffer)
                               ELSE F(0)
            /\ width_buffer' = <<>>
            /\ since_last' = 0
       ELSE UNCHANGED <<avg_width_1s, width_buffer, since_last>>
    /\ thread' = [thread EXCEPT ![n].pc = "evaluate",
                                ![n].per_widths = <<>>]
    /\ UNCHANGED <<running, cap, cap_state, video_thread, ui, bg_mean,
                   initial_width, status_label, idle_queue, canvas,
                   confirm_visible, destroyed>>
    /\ UNCHANGED uiVars
    /\ UNCHANGED getterVars

\* Weakened variant of Status below: a deviation equal to the threshold is
\* an alert.
StatusBelow(avg, init, width_threshold) ==
    IF ~width_threshold.nan /\ ~AbsDiff(avg, init).nan
       /\ AbsDiff(avg, init).t < width_threshold.t
    THEN "OK" ELSE "ALERT"

\* lines 1023-1029: OK or ALERT from the deviation and WIDTH_THRESHOLD
Status(avg, init, width_threshold) ==
    IF ~width_threshold.nan /\ ~AbsDiff(avg, init).nan
       /\ AbsDiff(avg, init).t <= width_threshold.t
    THEN "OK" ELSE "ALERT"

\* lines 1023-1037: the status, and the three texts put on vis
w_evaluate(n) ==
    /\ WorkerRuns(n) /\ At(n, "evaluate")
    /\ thread' = [thread EXCEPT
                    ![n].pc = "publish",
                    ![n].status = Status(avg_width_1s, initial_width,
                                         Current("WIDTH_THRESHOLD")),
                    ![n].vis = "texts"]
    /\ UNCHANGED <<running, cap, cap_state, video_thread, ui, bg_mean,
                   initial_width, avg_width_1s, width_buffer, status_label,
                   idle_queue, canvas, since_last, confirm_visible, destroyed>>
    /\ UNCHANGED uiVars
    /\ UNCHANGED getterVars

\* The times one cycle takes, in milliseconds: before is the time from the
\* read of line 956 to now = time.time() of line 1017, elapsed the time
\* from there to line 1044.  NoDelay is a cycle that takes no time.
NoDelay == {[before |-> 0, elapsed |-> 0]}

\* max(1, fps)
Max1(fps) == IF fps < 1 THEN 1 ELSE fps

\* line 1043: 1.0 / max(1, TARGET_FPS), in whole milliseconds.
TargetFrameTime(fps) == 1000 \div Max1(fps)

\* Weakened variant of SleepTime below: the cycle sleeps the whole budget.
SleepBudget(fps, elapsed) == TargetFrameTime(fps)

\* lines 1043-1045: max(0, target_frame_time - elapsed)
SleepTime(fps, elapsed) == Max0(TargetFrameTime(fps) - elapsed)

\* lines 1040-1047: root.after_idle(lambda: self.display_frame(vis)), then
\* the sleep for the rest of 1 / TARGET_FPS.  The lambda holds the variable
\* vis of this thread, not the array it names now.  The thread record keeps
\* the processing time of the cycle and the time slept until the loop test.
w_publish(n, delays) ==
    /\ WorkerRuns(n) /\ At(n, "publish")
    /\ Len(idle_queue) < MaxQueue
    /\ idle_queue' = Append(idle_queue, n)
    /\ \E d \in delays :
         thread' = [thread EXCEPT
                      ![n].pc = "loop",
                      ![n].status = "",
                      ![n].processing = d.before + d.elapsed,
                      ![n].sleep_time =
                          SleepTime(Current("TARGET_FPS"), d.elapsed)]
    /\ UNCHANGED <<running, cap, cap_state, video_thread, ui, bg_mean,
                   initial_width, avg_width_1s, width_buffer, status_label,
                   canvas, since_last, confirm_visible, destroyed>>
    /\ UNCHANGED uiVars
    /\ UNCHANGED getterVars

\* lines 1049-1050: if self.cap: self.cap.release()
w_release(n) ==
    /\ WorkerRuns(n) /\ At(n, "release")
    /\ cap_state' = IF cap # 0 THEN [cap_state EXCEPT ![cap] = "released"]
                    ELSE cap_state
    /\ Goto(n, "clear")
    /\ UNCHANGED <<running, cap, video_thread, ui, bg_mean, initial_width,
                   avg_width_1s, width_buffer, status_label, idle_queue,
                   canvas, since_last, confirm_visible, destroyed>>
    /\ UNCHANGED uiVars
    /\ UNCHANGED getterVars

\* line 1051: self.running = False
w_clear(n) ==
    /\ WorkerRuns(n) /\ At(n, "clear")
    /\ running' = FALSE
    /\ Goto(n, "done")
    /\ UNCHANGED <<cap, cap_state, video_thread, ui, bg_mean, initial_width,
                   avg_width_1s, width_buffer, status_label, idle_queue,
                   canvas, since_last, confirm_visible, destroyed>>
    /\ UNCHANGED uiVars
    /\ UNCHANGED getterVars

\* One second of wall-clock time has passed since self.last_time.
Tick ==
    /\ ~destroyed
    /\ since_last = 0
    /\ since_last' = 1
    /\ UNCHANGED <<running, cap, cap_state, video_thread, thread, ui, bg_mean,
                   initial_width, avg_width_1s, width_buffer, status_label,
                   idle_queue, canvas, confirm_visible, destroyed>>
    /\ UNCHANGED uiVars
    /\ UNCHANGED getterVars

(***************************************************************************)
(* The UI thread: restart, exit, power-off and the idle display callback   *)
(*                                                                         *)
(* ui.pc is "idle" while the Tk event loop is free to dispatch a handler;  *)
(* the handlers that sleep, join or run in more than one step hold it.     *)
(* ui.countdown is set while poweroff_system is in its countdown loop,     *)
(* whose root.update() dispatches other handlers.  ui.halting is set once  *)
(* a shutdown command has succeeded: the process runs on until the system  *)
(* ends it.                                                                *)
(***************************************************************************)
UIGoto(pc) == ui' = [ui EXCEPT !.pc = pc]

\* lines 626-631: was_running, the stop signal and time.sleep(0.5)
restart_measurement ==
    /\ UIIdle
    /\ ui' = [ui EXCEPT !.pc = "restart_reset",
                        !.was_running = IF running THEN "yes" ELSE "no"]
    /\ running' = FALSE
    /\ UNCHANGED <<cap, cap_state, video_thread, thread, bg_mean,
                   initial_width, avg_width_1s, width_buffer, status_label,
                   idle_queue, canvas, since_last, confirm_visible, destroyed>>
    /\ UNCHANGED uiVars
    /\ UNCHANGED getterVars

\* Weakened variant of AfterReset below: start_measurement is called
\* whatever was_running holds.
AlwaysStart(was_running) == "start"

\* lines 641-642: if was_running: self.start_measurement()
AfterReset(was_running) == IF was_running = "yes" THEN "start" ELSE "idle"

\* lines 633-642: the measurement state is reset; start_measurement is
\* called only if the loop was running.
restart_reset ==
    /\ ui.pc = "restart_reset" /\ ~destroyed
    /\ bg_mean' = <<>>
    /\ initial_width' = F(0)
    /\ avg_width_1s' = F(0)
    /\ width_buffer' = <<>>
    /\ since_last' = 0
    /\ UIGoto(AfterReset(ui.was_running))
    /\ UNCHANGED <<running, cap, cap_state, video_thread, thread,
                   status_label, idle_queue, canvas, confirm_visible,
                   destroyed>>
    /\ UNCHANGED uiVars
    /\ UNCHANGED getterVars

\* lines 884-887 of start_measurement: return if running, else set it.
start_measurement ==
    /\ ui.pc = "start" /\ ~destroyed
    /\ IF running
       THEN UIGoto("idle") /\ UNCHANGED running
       ELSE UIGoto("join") /\ running' = TRUE
    /\ UNCHANGED <<cap, cap_state, video_thread, thread, bg_mean,
                   initial_width, avg_width_1s, width_buffer, status_label,
                   idle_queue, canvas, since_last, confirm_visible, destroyed>>
    /\ UNCHANGED uiVars
    /\ UNCHANGED getterVars

\* lines 889-894: video_thread.join(timeout=1.0) returns when the old thread
\* has ended or after one second, whichever is first; then the new thread
\* is created and started.
start_thread ==
    /\ ui.pc = "join" /\ ~destroyed
    /\ video_thread < MaxThreads
    /\ video_thread' = video_thread + 1
    /\ thread' = [thread EXCEPT ![video_thread + 1].pc = "open"]
    /\ UIGoto("idle")
    /\ UNCHANGED <<running, cap, cap_state, bg_mean, initial_width,
                   avg_width_1s, width_buffer, status_label, idle_queue,
                   canvas, since_last, confirm_visible, destroyed>>
    /\ UNCHANGED uiVars
    /\ UNCHANGED getterVars

Release(c) == IF c # 0 THEN [cap_state EXCEPT ![c] = "released"] ELSE cap_state

\* lines 1111-1114 of exit_app (Escape, or the window is closed): the
\* settings are saved and the stop signal is given.
exit_app ==
    /\ UIIdle
    /\ settings_file' = save_settings(config)
    /\ running' = FALSE
    /\ UIGoto("exit_release")
    /\ UNCHANGED <<cap, cap_state, video_thread, thread, bg_mean,
                   initial_width, avg_width_1s, width_buffer, status_label,
                   idle_queue, canvas, since_last, confirm_visible, destroyed>>
    /\ UNCHANGED <<config, entries, current_entry, error_label, timers>>
    /\ UNCHANGED getterVars

\* lines 1115-1117: if self.cap: self.cap.release(); self.root.destroy()
exit_release ==
    /\ ui.pc = "exit_release" /\ ~destroyed
    /\ cap_state' = Release(cap)
    /\ destroyed' = TRUE
    /\ UIGoto("idle")
    /\ UNCHANGED <<running, cap, video_thread, thread, bg_mean, initial_width,
                   avg_width_1s, width_buffer, status_label, idle_queue,
                   canvas, since_last, confirm_visible>>
    /\ UNCHANGED uiVars
    /\ UNCHANGED getterVars

\* ask_poweroff_confirmation, the POWEROFF button.
ask_poweroff_confirmation ==
    /\ UIIdle
    /\ confirm_visible' = TRUE
    /\ timers' = After("poweroff_cancelled")
    /\ UNCHANGED <<running, cap, cap_state, video_thread, thread, ui, bg_mean,
                   initial_width, avg_width_1s, width_buffer, status_label,
                   idle_queue, canvas, since_last, destroyed>>
    /\ UNCHANGED <<config, settings_file, entries, current_entry, error_label>>
    /\ UNCHANGED getterVars

\* poweroff_cancelled, the NO button (shown with the confirmation).
poweroff_cancelled ==
    /\ UIIdle
    /\ confirm_visible
    /\ confirm_visible' = FALSE
    /\ UNCHANGED <<running, cap, cap_state, video_thread, thread, ui, bg_mean,
                   initial_width, avg_width_1s, width_buffer, status_label,
                   idle_queue, canvas, since_last, destroyed>>
    /\ UNCHANGED uiVars
    /\ UNCHANGED getterVars

\* poweroff_cancelled as the callback of root.after(10000, ...).
poweroff_timeout ==
    /\ UIIdle
    /\ timers["poweroff_cancelled"] > 0
    /\ timers' = [timers EXCEPT !["poweroff_cancelled"] = @ - 1]
    /\ confirm_visible' = FALSE
    /\ UNCHANGED <<running, cap, cap_state, video_thread, thread, ui, bg_mean,
                   initial_width, avg_width_1s, width_buffer, status_label,
                   idle_queue, canvas, since_last, destroyed>>
    /\ UNCHANGED <<config, settings_file, entries, current_entry, error_label>>
    /\ UNCHANGED getterVars

\* poweroff_confirmed, the YES button: the confirmation is hidden and
\* poweroff_system saves the settings and starts its countdown (647-659).
poweroff_confirmed ==
    /\ UIIdle
    /\ confirm_visible
    /\ confirm_visible' = FALSE
    /\ settings_file' = save_settings(config)
    /\ ui' = [ui EXCEPT !.countdown = TRUE]
    /\ UNCHANGED <<running, cap, cap_state, video_thread, thread, bg_mean,
                   initial_width, avg_width_1s, width_buffer, status_label,
                   idle_queue, canvas, since_last, destroyed>>
    /\ UNCHANGED <<config, entries, current_entry, error_label, timers>>
    /\ UNCHANGED getterVars

\* lines 661-664 of poweroff_system, after the countdown: the stop signal
\* and the release of the capture.
poweroff_stop ==
    /\ UIIdle
    /\ ui.countdown
    /\ running' = FALSE
    /\ cap_state' = Release(cap)
    /\ ui' = [ui EXCEPT !.pc = "shutdown", !.countdown = FALSE]
    /\ UNCHANGED <<cap, video_thread, thread, bg_mean, initial_width,
                   avg_width_1s, width_buffer, status_label, idle_queue,
                   canvas, since_last, confirm_visible, destroyed>>
    /\ UNCHANGED uiVars
    /\ UNCHANGED getterVars

\* lines 666-695: the shutdown commands.  When one succeeds the handler
\* returns and the system starts to halt; when every command fails the
\* window is destroyed.
poweroff_shutdown ==
    /\ ui.pc = "shutdown" /\ ~destroyed
    /\ \E succeeded \in BOOLEAN :
         IF succeeded
         THEN /\ ui' = [ui EXCEPT !.pc = "idle", !.halting = TRUE]
              /\ UNCHANGED destroyed
         ELSE /\ UIGoto("idle")
              /\ destroyed' = TRUE
    /\ UNCHANGED <<running, cap, cap_state, video_thread, thread, bg_mean,
                   initial_width, avg_width_1s, width_buffer, status_label,
                   idle_queue, canvas, since_last, confirm_visible>>
    /\ UNCHANGED uiVars
    /\ UNCHANGED getterVars

\* The halting system ends the process.
system_halt ==
    /\ ui.halting /\ ~destroyed
    /\ destroyed' = TRUE
    /\ UNCHANGED <<running, cap, cap_state, video_thread, thread, ui, bg_mean,
                   initial_width, avg_width_1s, width_buffer, status_label,
                   idle_queue, canvas, since_last, confirm_visible>>
    /\ UNCHANGED uiVars
    /\ UNCHANGED getterVars

\* The idle callback lambda: self.display_frame(vis), lines 1053-1107.  It
\* renders what the variable vis of the publishing thread names when the
\* callback runs.
display_frame ==
    /\ UIIdle
    /\ idle_queue # <<>>
    /\ canvas' = thread[Head(idle_queue)].vis
    /\ idle_queue' = Tail(idle_queue)
    /\ UNCHANGED <<running, cap, cap_state, video_thread, thread, ui, bg_mean,
                   initial_width, avg_width_1s, width_buffer, status_label,
                   since_last, confirm_visible, destroyed>>
    /\ UNCHANGED uiVars
    /\ UNCHANGED getterVars

(***************************************************************************)
(* The calibration tool: main of bg_color_getter.py, one action per step,  *)
(* and load_bg_mean of measure_lines.py, which reads what the tool wrote   *)
(*                                                                         *)
(* The frames of the tool are square, CropSize pixels a side.              *)
(***************************************************************************)
CropSize == 3

NotRun == [pc |-> "read", frame |-> NoFrame, roi |-> <<0, 0, 0, 0>>,
           printed |-> ""]

\* What cv2.selectROI can return for a frame: <<x, y, w, h>> of a rectangle
\* inside the frame, <<0, 0, 0, 0>> when the selection is cancelled.
Rois(size) ==
    {roi \in (0..size) \X (0..size) \X (0..size) \X (0..size) :
        roi[1] + roi[3] <= size /\ roi[2] + roi[4] <= size}

\* frame[y:y+h, x:x+w]
Crop(roi) ==
    {p \in (roi[1]..(roi[1] + roi[3] - 1)) \X (roi[2]..(roi[2] + roi[4] - 1)) :
        TRUE}

\* json.dump({"b": b_mean, "g": g_mean, "r": r_mean}, f, indent=2)
BgJson(mean) ==
    <<[valid |-> TRUE,
       items |-> [b |-> StrFloat(F(mean[1])), g |-> StrFloat(F(mean[2])),
                  r |-> StrFloat(F(mean[3]))]]>>

\* Weakened variant of load_bg_mean below: the fields are taken as r, g, b.
load_rgb(file) ==
    IF file = NoFile \/ ~file[1].valid
       \/ ~({"b", "g", "r"} \subseteq DOMAIN file[1].items)
    THEN <<>>
    ELSE <<JsonValue(file[1].items["r"]).t, JsonValue(file[1].items["g"]).t,
           JsonValue(file[1].items["b"]).t>>

\* measure_lines.py lines 17-21: np.array([d["b"], d["g"], d["r"]]); <<>>
\* when open, json.load or a missing field raises.
load_bg_mean(file) ==
    IF file = NoFile \/ ~file[1].valid
       \/ ~({"b", "g", "r"} \subseteq DOMAIN file[1].items)
    THEN <<>>
    ELSE <<JsonValue(file[1].items["b"]).t, JsonValue(file[1].items["g"]).t,
           JsonValue(file[1].items["r"]).t>>

\* lines 12-16: ret, frame = cap.read(); if not ret: print, return
g_read(source) ==
    /\ getter.pc = "read"
    /\ \E frame \in source \cup {NoFrame} :
         getter' = IF frame = NoFrame
                   THEN [getter EXCEPT !.pc = "done",
                                       !.printed = "Failed to open video."]
                   ELSE [getter EXCEPT !.pc = "select", !.frame = frame]
    /\ UNCHANGED bg_color_file
    /\ UNCHANGED <<uiVars, loopVars, script>>

\* lines 19-24: roi = cv2.selectROI(...); if w == 0 or h == 0: print, return
g_select ==
    /\ getter.pc = "select"
    /\ \E roi \in Rois(getter.frame.h) :
         getter' = IF roi[3] = 0 \/ roi[4] = 0
                   THEN [getter EXCEPT !.pc = "done", !.roi = roi,
                                       !.printed = "No ROI selected, exiting."]
                   ELSE [getter EXCEPT !.pc = "crop", !.roi = roi]
    /\ UNCHANGED bg_color_file
    /\ UNCHANGED <<uiVars, loopVars, script>>

\* lines 27-35: the mean of the crop is written to the file
g_save ==
    /\ getter.pc = "crop"
    /\ bg_color_file' = BgJson(MeanColour(getter.frame.pixels, Crop(getter.roi)))
    /\ getter' = [getter EXCEPT !.pc = "done", !.printed = "Saved"]
    /\ UNCHANGED <<uiVars, loopVars, script>>

(***************************************************************************)
(* The script variant: main of measure_lines.py, as far as its loop, its   *)
(* frame source and the Esc key go (measure_lines2.py and                  *)
(* measure_lines1.2.py have the same loop)                                 *)
(***************************************************************************)
NotLaunched == [pc |-> "open", cap |-> "none", esc |-> FALSE]

\* lines 26-31: cap = cv2.VideoCapture(...); ret, first = cap.read();
\* if not ret: print, return.  Lines 33-61 calibrate on the first frame.
m_open ==
    /\ script.pc = "open"
    /\ \E ret \in BOOLEAN :
         script' = [script EXCEPT !.pc = IF ret THEN "loop" ELSE "failed",
                                  !.cap = "open"]
    /\ UNCHANGED <<uiVars, loopVars, getter, bg_color_file>>

\* line 63: while True
m_loop ==
    /\ script.pc = "loop"
    /\ script' = [script EXCEPT !.pc = "read"]
    /\ UNCHANGED <<uiVars, loopVars, getter, bg_color_file>>

\* lines 64-67: ret, frame = cap.read(); if not ret: cap.set(...); continue
m_read ==
    /\ script.pc = "read"
    /\ \E ret \in BOOLEAN :
         script' = IF ret
                   THEN [script EXCEPT !.pc = "show", !.cap = "open"]
                   ELSE [script EXCEPT !.pc = "loop", !.cap = "rewound"]
    /\ UNCHANGED <<uiVars, loopVars, getter, bg_color_file>>

\* lines 69-127: the frame is measured and shown, and cv2.waitKey hands over
\* a key press the window has received: Esc (27) breaks the loop.
m_show ==
    /\ script.pc = "show"
    /\ script' = [script EXCEPT !.pc = IF script.esc THEN "release" ELSE "loop",
                                !.esc = FALSE]
    /\ UNCHANGED <<uiVars, loopVars, getter, bg_color_file>>

\* lines 129-130: cap.release(); cv2.destroyAllWindows()
m_release ==
    /\ script.pc = "release"
    /\ script' = [script EXCEPT !.pc = "stopped", !.cap = "released"]
    /\ UNCHANGED <<uiVars, loopVars, getter, bg_color_file>>

\* The operator presses Esc while the loop runs.
press_esc ==
    /\ script.pc \in {"loop", "read", "show"}
    /\ ~script.esc
    /\ script' = [script EXCEPT !.esc = TRUE]
    /\ UNCHANGED <<uiVars, loopVars, getter, bg_color_file>>

(***************************************************************************)
(* Initial state: after __init__ (lines 17-80), whose last statement is    *)
(* start_measurement(): running is set and the first thread is started.    *)
(* InitFrom(file) is the state when load_settings found the settings file  *)
(* as given; Init is the state of a first launch, without a file.          *)
(***************************************************************************)
\* Weakened variant of load_settings below: a file that lacks a key is not
\* used.
load_whole(file) ==
    IF file = NoFile \/ ~file[1].valid \/ DOMAIN file[1].items # Keys
    THEN default_config
    ELSE [k \in Keys |-> JsonValue(file[1].items[k])]

\* lines 90-106: the defaults, updated with what the file holds; the
\* defaults alone when there is no file or json.load raises.
load_settings(file) ==
    IF file = NoFile \/ ~file[1].valid THEN default_config
    ELSE [k \in Keys \cup DOMAIN file[1].items |->
            IF k \in DOMAIN file[1].items
            THEN JsonValue(file[1].items[k])
            ELSE default_config[k]]

InitGui(file) ==
    /\ config = load_settings(file)
    /\ settings_file = file
    /\ entries = [k \in DOMAIN config |-> [text |-> StrValue(k, config[k]),
                                  state |-> "disabled"]]
    /\ current_entry = None
    /\ error_label = <<>>
    /\ timers = [t \in TimerNames |-> 0]
    /\ running = TRUE
    /\ cap = 0
    /\ cap_state = [n \in Threads |-> "none"]
    /\ video_thread = 1
    /\ thread = [n \in Threads |-> IF n = 1 THEN [Unborn EXCEPT !.pc = "open"]
                                   ELSE Unborn]
    /\ ui = [pc |-> "idle", was_running |-> "unset", countdown |-> FALSE,
             halting |-> FALSE]
    /\ bg_mean = <<>>
    /\ initial_width = F(0)
    /\ avg_width_1s = F(0)
    /\ width_buffer = <<>>
    /\ status_label = "Status: Starting..."
    /\ idle_queue = <<>>
    /\ canvas = "none"
    /\ since_last = 0
    /\ confirm_visible = FALSE
    /\ destroyed = FALSE

\* The calibration tool is not run and has left no file.
InitFrom(file) ==
    /\ InitGui(file)
    /\ getter = [NotRun EXCEPT !.pc = "off"]
    /\ bg_color_file = NoFile
    /\ script = [NotLaunched EXCEPT !.pc = "off"]

Init == InitFrom(NoFile)

\* The steps of thread n, reading frames from the given source.
Worker(n, source) ==
    \/ w_open(n) \/ w_read_first(n, source) \/ w_estimate(n) \/ w_baseline(n)
    \/ w_loop(n) \/ w_read(n, source) \/ w_top(n) \/ w_bottom(n)
    \/ w_region(n) \/ w_sample(n) \/ w_rows(n) \/ w_flush(n)
    \/ w_evaluate(n) \/ w_publish(n, NoDelay) \/ w_release(n) \/ w_clear(n)

\* The operator presses RESTART only while a thread is left to start.
Restart ==
    /\ running => video_thread < MaxThreads
    /\ restart_measurement

(***************************************************************************)
(* Spec: the worker threads against restart, exit and the idle display     *)
(* callback, with the config left as loaded.                               *)
(***************************************************************************)
Next ==
    \/ \E n \in Threads : Worker(n, {Narrow})
    \/ Tick
    \/ Restart \/ restart_reset \/ start_measurement \/ start_thread
    \/ exit_app \/ exit_release
    \/ display_frame

Spec == Init /\ [][Next]_vars

(***************************************************************************)
(* SpecUI: the operator at the settings panel (select, numpad, keyboard,   *)
(* C, Submit, Cancel, Reset All and the delayed colour reset).             *)
(*                                                                         *)
(* The operator types the texts of UITexts.  A field is selected only when *)
(* no field is being edited, when every entry shows the value of its       *)
(* field, and while the fields outside its group (the two margins form one *)
(* group, every other field is alone) hold their defaults: submit_value    *)
(* reads no other field than those of the group.                           *)
(***************************************************************************)
MaxTimers == 2

NumpadKeys == Digits \cup {"."}
KeyboardKeys == {"-", "n", "a"}

UITexts(key) ==
    CASE key = "NUM_ROWS" ->
           {<<"0">>, <<"1">>, <<"1", "0", "0">>, <<"1", "0", "1">>,
            <<"1", ".", "5">>, <<"-", "1">>, <<"a">>}
      [] key = "TARGET_FPS" ->
           {<<"0">>, <<"6", "0">>, <<"6", "1">>, <<"n", "a", "n">>}
      [] key = "COLOR_THRESH" ->
           {<<"0", ".", "9", "9">>, <<"1">>, <<"5", "0", "0">>,
            <<"5", "0", "0", ".", "0", "1">>, <<"n", "a", "n">>, <<"a">>}
      [] key = "WIDTH_THRESHOLD" ->
           {<<"0", ".", "0", "9">>, <<"0", ".", "1">>, <<"1", "0", "0">>,
            <<"1", "0", "0", ".", "0", "1">>, <<"n", "a", "n">>, <<".">>}
      [] OTHER ->
           {<<"-", "0", ".", "0", "1">>, <<"0">>, <<"0", ".", "4">>,
            <<"0", ".", "6">>, <<"0", ".", "9">>, <<"0", ".", "9", "1">>,
            <<"1">>, <<"n", "a", "n">>, <<"a">>}

Group(key) == IF key \in MarginKeys THEN MarginKeys ELSE {key}
OthersAtDefault(key) ==
    \A j \in Keys \ Group(key) : config[j] = default_config[j]

\* What the entry being edited shows after the step is a text being typed.
Typing(texts(_)) ==
    current_entry # None =>
        \E t \in texts(current_entry) :
            \E i \in 0..Len(t) : entries'[current_entry].text = SubSeq(t, 1, i)

EntriesFresh == \A j \in Keys : entries[j].text = StrValue(j, config[j])

TimerRoom == timers["reset_entry_colors"] < MaxTimers

NextUI ==
    \/ \E k \in Keys :
         /\ current_entry = None
         /\ OthersAtDefault(k)
         /\ EntriesFresh
         /\ select_entry(k)
    \/ \E d \in NumpadKeys : numpad_input(d) /\ Typing(UITexts)
    \/ \E ch \in KeyboardKeys : keypress(ch) /\ Typing(UITexts)
    \/ clear_input
    \/ TimerRoom /\ submit_value
    \/ cancel_input
    \/ TimerRoom /\ reset_all_settings
    \/ reset_entry_colors

SpecUI == Init /\ [][NextUI]_vars

(***************************************************************************)
(* SpecPower: one worker thread against the power-off dialog, the shutdown *)
(* and exit.  RESTART is pressed only while the running flag is false, so  *)
(* no second thread is started.                                            *)
(***************************************************************************)
DialogRoom == timers["poweroff_cancelled"] < MaxTimers

NextPower ==
    \/ \E n \in Threads : Worker(n, {Narrow})
    \/ Tick
    \/ display_frame
    \/ DialogRoom /\ ask_poweroff_confirmation
    \/ poweroff_cancelled \/ poweroff_timeout \/ poweroff_confirmed
    \/ poweroff_stop \/ poweroff_shutdown \/ system_halt
    \/ ~running /\ restart_measurement
    \/ restart_reset
    \/ exit_app \/ exit_release

SpecPower == Init /\ [][NextPower]_vars

(***************************************************************************)
(* SpecCfg: one worker thread, never told to stop, against the operator    *)
(* changing the margins from the numpad, and Reset All.                    *)
(***************************************************************************)
CfgTexts(key) ==
    IF key = "TOP_MARGIN_RATIO" THEN {<<"0", ".", "8">>}
    ELSE {<<"0", ".", "1">>}

\* The steps of thread n up to the end of a cycle.
Cycles(n, source) ==
    \/ w_open(n) \/ w_read_first(n, source) \/ w_estimate(n) \/ w_baseline(n)
    \/ w_loop(n) \/ w_read(n, source) \/ w_top(n) \/ w_bottom(n)
    \/ w_region(n) \/ w_sample(n) \/ w_rows(n) \/ w_flush(n)
    \/ w_evaluate(n) \/ w_publish(n, NoDelay)

NoTimer == timers["reset_entry_colors"] = 0

NextCfg ==
    \/ \E n \in Threads : Cycles(n, {Narrow})
    \/ Tick
    \/ display_frame
    \/ \E k \in MarginKeys :
         /\ current_entry = None
         /\ EntriesFresh
         /\ NoTimer
         /\ select_entry(k)
    \/ \E d \in NumpadKeys : numpad_input(d) /\ Typing(CfgTexts)
    \/ clear_input
    \/ NoTimer /\ submit_value
    \/ NoTimer /\ reset_all_settings
    \/ reset_entry_colors

SpecCfg == Init /\ [][NextCfg]_vars

(***************************************************************************)
(* Properties of submit_value                                              *)
(***************************************************************************)
\* Submit is pressed on a selected field whose entry holds a text.
SubmitsText ==
    /\ submit_value
    /\ current_entry # None
    /\ entries[current_entry].text # <<>>

\* The step left the config and the settings file alone and put a reason
\* for the field on the error label.
RejectedStep ==
    /\ config' = config
    /\ settings_file' = settings_file
    /\ Len(error_label') = 2
    /\ error_label'[1] = current_entry
    /\ error_label'[2] # ""

OtherMargin(key) ==
    IF key = "TOP_MARGIN_RATIO" THEN "BOTTOM_MARGIN_RATIO"
    ELSE "TOP_MARGIN_RATIO"

\* The text is a number which, put into the selected margin, brings the sum
\* of the two margins to 1.0 or more.
SumReachesOne ==
    LET s == entries[current_entry].text
    IN /\ current_entry \in MarginKeys
       /\ IsDecimal(Unsigned(s))
       /\ ~config[OtherMargin(current_entry)].nan
       /\ FloatOf(s).t + config[OtherMargin(current_entry)].t >= 100

\* C4: submitting a margin whose value would make TOP_MARGIN_RATIO +
\* BOTTOM_MARGIN_RATIO reach 1.0 or more changes neither margin (nor any
\* other field), does not write the settings file, and shows an error
\* reason for the field.
C4_CombinedMarginsRejected ==
    [][(SubmitsText /\ SumReachesOne) => RejectedStep]_vars

\* A margin submit has just been refused by the combined-margin test.
C4_Witness ==
    /\ Len(error_label) = 2
    /\ error_label[1] \in MarginKeys
    /\ error_label[2] = "Combined margins must be < 1.0"
    /\ config = default_config
    /\ settings_file = NoFile

\* C5 as stated: every number held by the config as a margin ratio lies in
\* the half-open interval [0, 0.9), so a candidate of exactly 0.9 is never
\* accepted.
C5_HalfOpenRange ==
    \A k \in MarginKeys :
        config[k].nan \/ (config[k].t >= 0 /\ config[k].t < 90)

\* C5 amended: no margin ratio held by the config is below 0 or above 0.9;
\* the upper end 0.9 itself is allowed (and so is the NaN that float("nan")
\* yields, which is neither below 0 nor above 0.9).
C5_ClosedRange ==
    \A k \in MarginKeys :
        config[k].nan \/ (config[k].t >= 0 /\ config[k].t <= 90)

\* A margin of exactly 0.9 was accepted and saved.
C5_Witness ==
    \E k \in MarginKeys :
        /\ config[k] = F(90)
        /\ settings_file = save_settings(config)

\* The text of a field is inside the field's domain: an integer numeral in
\* 1-100 (NUM_ROWS) or 1-60 (TARGET_FPS), a decimal numeral in 1.0-500.0
\* (COLOR_THRESH) or 0.1-100.0 (WIDTH_THRESHOLD), a decimal numeral (margins).
InDomain(key, s) ==
    CASE key = "NUM_ROWS" -> IntOk(s) /\ IntOf(s) >= 1 /\ IntOf(s) <= 100
      [] key = "TARGET_FPS" -> IntOk(s) /\ IntOf(s) >= 1 /\ IntOf(s) <= 60
      [] key = "COLOR_THRESH" ->
           /\ IsDecimal(Unsigned(s))
           /\ FloatOf(s).t >= 100 /\ FloatOf(s).t <= 50000
      [] key = "WIDTH_THRESHOLD" ->
           /\ IsDecimal(Unsigned(s))
           /\ FloatOf(s).t >= 10 /\ FloatOf(s).t <= 10000
      [] OTHER -> IsDecimal(Unsigned(s))

\* C6: submitting a text that is not numeric, or a value outside the domain
\* of its field (NUM_ROWS 1-100, TARGET_FPS 1-60, COLOR_THRESH 1.0-500.0,
\* WIDTH_THRESHOLD 0.1-100.0), leaves the config unchanged, does not write
\* the settings file, and shows the reason.
C6_OutOfDomainRejected ==
    [][(SubmitsText /\ ~InDomain(current_entry, entries[current_entry].text))
          => RejectedStep]_vars

(***************************************************************************)
(* Properties of the worker threads and their lifecycle                    *)
(***************************************************************************)
\* Positions of run_measurement: in calibration with the capture opened,
\* inside a cycle (past the test of self.running), and anywhere between
\* opening the capture and having released it.
Calibrating == {"read_first", "estimate", "baseline"}
MidCycle == {"read", "top", "bottom", "region", "sample", "rows", "flush",
             "evaluate", "publish"}
Holding == Calibrating \cup {"loop"} \cup MidCycle \cup {"release"}

\* C1: at most one worker thread is inside a measurement cycle at any time.
C1_SingleWorker ==
    Cardinality({n \in Threads : thread[n].pc \in MidCycle}) <= 1

\* C2: the margin pair one cycle uses comes from one valid Config, so the
\* two ratios sum to less than 1.0: the two margins in pixels, as read for
\* the cycle, sum to less than the frame height.
C2_MarginPairOfOneConfig ==
    \A n \in Threads :
        At(n, "region") =>
            thread[n].top_m + thread[n].bottom_m < thread[n].frame.h

\* C3: every frame display_frame renders is the completely annotated frame
\* of a finished cycle (rows drawn and the three texts put on it).
C3_RendersFinishedFrame == canvas \in {"none", "texts"}

\* C7: bg_mean and initial_width change only in the reset of an explicit
\* restart and in the calibration of the session's own worker (the thread
\* self.video_thread names).
C7_BaselineSetBySession ==
    [][(bg_mean' # bg_mean \/ initial_width' # initial_width) =>
          \/ ui.pc = "restart_reset" /\ ui'.pc # "restart_reset"
          \/ /\ thread[video_thread].pc \in {"estimate", "baseline"}
             /\ thread'[video_thread].pc # thread[video_thread].pc]_vars

\* C8 as stated: a restart requested while the running flag is false goes
\* on, after the reset, to start_measurement (which starts a new worker).
C8_RestartWhileStoppedStarts ==
    [][(ui.pc = "restart_reset" /\ ui.was_running = "no"
          /\ ui'.pc # "restart_reset") => ui'.pc = "start"]_vars

\* C8 amended: a restart requested while the running flag is false only
\* resets the measurement state: the flag stays false, no thread is
\* started, and the handler returns with bg_mean, initial_width,
\* avg_width_1s and width_buffer cleared.
C8_RestartWhileStoppedOnlyResets ==
    [][(ui.pc = "restart_reset" /\ ui.was_running = "no") =>
          /\ ~running'
          /\ video_thread' = video_thread
          /\ \A n \in Threads :
                thread[n].pc = "unborn" => thread'[n].pc = "unborn"
          /\ ui'.pc \in {"restart_reset", "idle"}
          /\ ui'.pc = "idle" =>
                /\ bg_mean' = <<>>
                /\ initial_width' = F(0)
                /\ avg_width_1s' = F(0)
                /\ width_buffer' = <<>>]_vars

\* RESTART was pressed with the flag false and the worker ended, and has
\* returned: nothing runs.
C8_Witness ==
    /\ ui.pc = "idle" /\ ui.was_running = "no" /\ ~destroyed
    /\ thread[1].pc = "done"
    /\ \A n \in Threads : ~Alive(n)
    /\ ~running
    /\ bg_mean = <<>>

\* C9: a thread is in calibration, its capture opened, only when no older
\* thread still holds or uses a capture.
C9_RestartOrdered ==
    \A n \in Threads, m \in Threads :
        (m < n /\ thread[n].pc \in Calibrating) => thread[m].pc \notin Holding

\* C10: when the UI thread releases the capture (exit_app, poweroff_system),
\* no worker thread is in the middle of a cycle.
C10_ReleaseAfterStopObserved ==
    [][(exit_release \/ poweroff_stop) =>
          \A n \in Threads : thread[n].pc \notin MidCycle]_vars

(***************************************************************************)
(* Properties of frame acquisition                                         *)
(***************************************************************************)
\* C11: while the session's thread (the one self.video_thread names) has
\* ended on a failed first read and no restart is in progress, the status
\* shows the failure and bg_mean and initial_width are not set.
C11_FailedSessionShowsFailure ==
    (thread[video_thread].pc = "failed" /\ ui.pc = "idle") =>
        /\ status_label = "Status: Failed to open video"
        /\ bg_mean = <<>>
        /\ initial_width = F(0)

\* The measurement state a cycle advances, and what it publishes.
measurementState == <<width_buffer, since_last, avg_width_1s, initial_width,
                      bg_mean, idle_queue, status_label, canvas>>

\* C12: a failed read in the loop takes the thread back to the test of
\* self.running, with the flag, the width buffer, the time since the last
\* flush, avg_width_1s, initial_width and bg_mean as they were and nothing
\* published; only the source is set back to its first frame.
C12_FailedReadRetries ==
    [][\A n \in Threads :
          (thread[n].pc = "read" /\ thread'[n].pc \notin {"read", "top"}) =>
              /\ thread'[n].pc = "loop"
              /\ running' = running
              /\ measurementState' = measurementState
              /\ cap_state' = Rewind(cap)]_vars

\* A read of the loop has failed with samples waiting in the buffer: the
\* thread is back at the loop test, the source rewound, the buffer kept.
C12_Witness ==
    /\ thread[1].pc = "loop" /\ running
    /\ cap = 1 /\ cap_state[1] = "rewound"
    /\ width_buffer # <<>>
    /\ status_label = "Status: Running"

(***************************************************************************)
(* SpecPowerFair: SpecPower with the worker threads scheduled: a thread    *)
(* that can test the flag or read a frame eventually does.                 *)
(***************************************************************************)
SpecPowerFair ==
    SpecPower /\ WF_vars(\E n \in Threads : w_loop(n) \/ w_read(n, {Narrow}))

\* C13: the worker does not stay for ever between the loop test and a
\* failing read, the flag set, with the status showing "Status: Running":
\* when reads keep failing, the status eventually shows something else.
C13_FailureBecomesObservable ==
    []<>~(/\ thread[1].pc \in {"loop", "read"}
          /\ running /\ ~destroyed
          /\ status_label = "Status: Running")

(***************************************************************************)
(* SpecGeom: one worker thread, never told to stop, on frames of every     *)
(* height from 1 to MaxHeight, with a config an earlier run has validated  *)
(* and saved.                                                              *)
(***************************************************************************)
MaxHeight == 26

GeomFrames == {[h |-> h, bg |-> <<200, 200, 200>>, rows |-> <<Row({3, 4})>>] :
                 h \in 1..MaxHeight}

GeomMargins == {<<F(20), F(60)>>, <<F(0), F(0)>>, <<F(50), F(25)>>,
                <<F(90), F(0)>>}

GeomConfigs ==
    {[default_config EXCEPT !["NUM_ROWS"] = r,
                            !["TOP_MARGIN_RATIO"] = m[1],
                            !["BOTTOM_MARGIN_RATIO"] = m[2]] :
        r \in {1, 5}, m \in GeomMargins}

InitGeom == \E cfg \in GeomConfigs : InitFrom(save_settings(cfg))

NextGeom ==
    \/ \E n \in Threads : Cycles(n, GeomFrames)
    \/ Tick
    \/ display_frame

SpecGeom == InitGeom /\ [][NextGeom]_vars

\* C14: no exception leaves run_measurement: no thread ends on one.
C14_NoCycleRaises == \A n \in Threads : thread[n].pc # "crashed"

(***************************************************************************)
(* Properties of the sample rows                                           *)
(***************************************************************************)
\* The two configured margins in pixels, and the height they leave.
Top0(h) == Max0(MarginPixels(h, config["TOP_MARGIN_RATIO"]))
Bottom0(h) == Max0(MarginPixels(h, config["BOTTOM_MARGIN_RATIO"]))
Left0(h) == h - Top0(h) - Bottom0(h)

\* C15: the sample rows computed for a cycle are row indices of the frame,
\* in [0, h-1], and never decrease.
C15_SampleRowsInFrame ==
    \A n \in Threads :
        At(n, "rows") =>
            LET ys == thread[n].sample_ys
            IN \A i \in DOMAIN ys :
                  /\ ys[i] >= 0 /\ ys[i] <= thread[n].frame.h - 1
                  /\ i > 1 => ys[i - 1] <= ys[i]

\* Five rows between the default margins of the highest frame.
C15_Witness ==
    \E n \in Threads :
        /\ At(n, "rows")
        /\ thread[n].frame.h = 26
        /\ thread[n].sample_ys = <<5, 6, 7, 8, 10>>

NextWidth ==
    \/ \E n \in Threads :
         \/ w_open(n) \/ w_read_first(n, {Narrow}) \/ w_estimate(n)
         \/ w_baseline(n) \/ w_loop(n) \/ w_read(n, WidthFrames)
         \/ w_top(n) \/ w_bottom(n) \/ w_region(n) \/ w_sample(n)
         \/ w_rows(n) \/ w_flush(n) \/ w_evaluate(n) \/ w_publish(n, NoDelay)
    \/ Tick
    \/ display_frame

SpecWidth == Init /\ [][NextWidth]_vars

\* The true cells of mask row y of a frame.
Cells(frame, y) == {x \in 0..(FrameWidth - 1) : MaskRow(frame, y)[x]}

\* The step of thread n that measures the sample rows.
MeasuresRows(n) == thread[n].pc = "rows" /\ thread'[n].pc = "flush"

\* C17: the width sampled on a mask row is the distance from its smallest
\* to its largest true cell, whatever lies between them; it is 0 for a row
\* without a true cell and for a row with one, and it lies in [0, W-1].
C17_WidthIsSpan ==
    [][\A n \in Threads :
          MeasuresRows(n) =>
              \A i \in DOMAIN thread'[n].per_widths :
                  LET width == thread'[n].per_widths[i]
                      cells == Cells(thread[n].frame, thread[n].sample_ys[i])
                  IN /\ width >= 0 /\ width <= FrameWidth - 1
                     /\ Cardinality(cells) <= 1 => width = 0
                     /\ cells # {} =>
                           \E a \in cells, b \in cells :
                               /\ width = b - a
                               /\ \A c \in cells : a <= c /\ c <= b]_vars

\* Rows without a true cell, with one, with gaps and full rows measured in
\* one frame.
C17_Witness ==
    \E n \in Threads :
        /\ At(n, "flush")
        /\ {0, 5, FrameWidth - 1} =
              {thread[n].per_widths[i] : i \in DOMAIN thread[n].per_widths}

\* C18: the frame's sample is the arithmetic mean of one width per sample
\* row, rows of width 0 included: as many widths are averaged as there are
\* sample rows.
C18_MeanOverAllRows ==
    [][\A n \in Threads :
          MeasuresRows(n) =>
              LET widths == thread'[n].per_widths
                  rows == Len(thread[n].sample_ys)
              IN /\ Len(widths) = rows
                 /\ rows > 0 =>
                       width_buffer' =
                           Append(width_buffer,
                                  F((100 * SumInts(widths)) \div rows))]_vars

\* Rows of width 0 and rows of width 3 of one frame give a sample below 3.
C18_Witness ==
    \E n \in Threads :
        /\ At(n, "flush")
        /\ Len(thread[n].per_widths) = config["NUM_ROWS"]
        /\ \E i, j \in DOMAIN thread[n].per_widths :
               thread[n].per_widths[i] = 0 /\ thread[n].per_widths[j] = 3
        /\ width_buffer # <<>>
        /\ width_buffer[Len(width_buffer)] =
              F((100 * SumInts(thread[n].per_widths))
                    \div Len(thread[n].per_widths))
        /\ width_buffer[Len(width_buffer)].t < 300

\* The step of thread n that decides on the flush.
DecidesFlush(n) == thread[n].pc = "flush" /\ thread'[n].pc = "evaluate"

RECURSIVE SumOfSamples(_)
SumOfSamples(q) == IF q = <<>> THEN 0 ELSE q[1].t + SumOfSamples(Tail(q))

\* C19: when a second or more has passed since the last flush, the smoothed
\* width becomes the arithmetic mean of the buffered samples, the buffer is
\* empty afterwards and the time of the last flush is the current time.
C19_FlushAverages ==
    [][\A n \in Threads :
          (DecidesFlush(n) /\ since_last >= 1 /\ width_buffer # <<>>) =>
              /\ ~avg_width_1s'.nan
              /\ avg_width_1s'.t =
                    SumOfSamples(width_buffer) \div Len(width_buffer)
              /\ width_buffer' = <<>>
              /\ since_last' = 0]_vars

\* The samples 1.0 and 7.0 have been flushed to 4.0.
C19_Witness ==
    \E n \in Threads :
        /\ At(n, "evaluate")
        /\ width_buffer = <<>> /\ since_last = 0
        /\ avg_width_1s = F(400)

\* C20: between flushes the smoothed width holds: a cycle in which less
\* than a second has passed since the last flush appends one sample to the
\* buffer and changes neither the smoothed width nor the time of the last
\* flush, whatever the width of its frame.
C20_HoldsBetweenFlushes ==
    [][\A n \in Threads :
          /\ MeasuresRows(n) =>
                /\ Len(width_buffer') = Len(width_buffer) + 1
                /\ SubSeq(width_buffer', 1, Len(width_buffer)) = width_buffer
                /\ avg_width_1s' = avg_width_1s
                /\ since_last' = since_last
          /\ (DecidesFlush(n) /\ since_last < 1) =>
                /\ width_buffer' = width_buffer
                /\ avg_width_1s' = avg_width_1s
                /\ since_last' = since_last]_vars

\* The sample 7.0 is buffered and the smoothed width is still 1.0.
C20_Witness ==
    \E n \in Threads :
        /\ At(n, "evaluate")
        /\ since_last = 0
        /\ width_buffer = <<F(700)>>
        /\ avg_width_1s = F(100)

\* Thread n is about to publish the first result of the session: nothing
\* has been queued or rendered yet.
FirstResult(n) ==
    At(n, "publish") /\ idle_queue = <<>> /\ canvas = "none"

\* C21: the first result published after calibration carries the seed: the
\* smoothed width equals the baseline width and the state is OK.
C21_FirstResultCarriesSeed ==
    \A n \in Threads :
        FirstResult(n) =>
            /\ avg_width_1s = initial_width
            /\ thread[n].status = "OK"

(***************************************************************************)
(* SpecAlert: one worker thread, never told to stop, with the default      *)
(* config, calibrated on the narrow line and then measuring lines whose    *)
(* widths lie below, on and above the threshold.                           *)
(***************************************************************************)
NextAlert ==
    \/ \E n \in Threads :
         \/ w_open(n) \/ w_read_first(n, {Narrow}) \/ w_estimate(n)
         \/ w_baseline(n) \/ w_loop(n) \/ w_read(n, AlertFrames)
         \/ w_top(n) \/ w_bottom(n) \/ w_region(n) \/ w_sample(n)
         \/ w_rows(n) \/ w_flush(n) \/ w_evaluate(n) \/ w_publish(n, NoDelay)
    \/ Tick
    \/ display_frame

SpecAlert == Init /\ [][NextAlert]_vars

\* The step of thread n that decides on the state.
Evaluates(n) == thread[n].pc = "evaluate" /\ thread'[n].pc = "publish"

\* C22: the state of a cycle is OK when the smoothed width and the baseline
\* width of that moment differ by the threshold or less, and ALERT when
\* they differ by more, whatever the state of the cycle before.
C22_StateFromDeviation ==
    [][\A n \in Threads :
          (Evaluates(n) /\ ~avg_width_1s.nan /\ ~initial_width.nan
             /\ ~config["WIDTH_THRESHOLD"].nan) =>
              LET a == avg_width_1s.t
                  b == initial_width.t
                  limit == config["WIDTH_THRESHOLD"].t
                  within == a - b <= limit /\ b - a <= limit
              IN /\ thread'[n].status \in {"OK", "ALERT"}
                 /\ thread'[n].status = "OK" <=> within]_vars

\* The smoothed width 6.0 against the baseline 1.0 and the threshold 5.0
\* is OK.
C22_Witness ==
    \E n \in Threads :
        /\ At(n, "publish")
        /\ avg_width_1s = F(600) /\ initial_width = F(100)
        /\ config["WIDTH_THRESHOLD"] = F(500)
        /\ thread[n].status = "OK"

(***************************************************************************)
(* SpecScenario: one worker thread, never told to stop, with the default   *)
(* config, calibrated on a frame with a span of 50 pixels on every row and *)
(* then reading frames with a span of 80 pixels on every row.              *)
(***************************************************************************)
NextScenario ==
    \/ \E n \in Threads :
         \/ w_open(n) \/ w_read_first(n, {Span50}) \/ w_estimate(n)
         \/ w_baseline(n) \/ w_loop(n) \/ w_read(n, {Span80})
         \/ w_top(n) \/ w_bottom(n) \/ w_region(n) \/ w_sample(n)
         \/ w_rows(n) \/ w_flush(n) \/ w_evaluate(n) \/ w_publish(n, NoDelay)
    \/ Tick
    \/ display_frame

SpecScenario == Init /\ [][NextScenario]_vars

\* C23: with the baseline 50 and frames of width 80, the cycle that finds
\* a second or more gone since the last flush sets the smoothed width to
\* 80; the smoothed width then stays 80, and every cycle evaluated with it
\* has the deviation 30 and the state ALERT.
C23_WiderLineAlerts ==
    [][\A n \in Threads :
          /\ (DecidesFlush(n) /\ since_last >= 1) => avg_width_1s' = F(8000)
          /\ avg_width_1s = F(8000) => avg_width_1s' = F(8000)
          /\ (Evaluates(n) /\ avg_width_1s = F(8000)) =>
                /\ initial_width = F(5000)
                /\ AbsDiff(avg_width_1s, initial_width) = F(3000)
                /\ config["WIDTH_THRESHOLD"].t < 3000
                /\ thread'[n].status = "ALERT"]_vars

\* A later cycle, after a result has been rendered, still alerts on 80
\* against 50.
C23_Witness ==
    \E n \in Threads :
        /\ At(n, "publish")
        /\ canvas # "none"
        /\ initial_width = F(5000) /\ avg_width_1s = F(8000)
        /\ thread[n].status = "ALERT"

(***************************************************************************)
(* SpecLive: one worker thread, never told to stop, whose cycles take time,*)
(* and the operator changing one field at a time with C and the numpad, or *)
(* pressing Reset All, while the worker is between two cycles.             *)
(***************************************************************************)
LiveTexts(key) ==
    CASE key = "NUM_ROWS" -> {<<"3">>}
      [] key = "TARGET_FPS" -> {<<"1", "0">>}
      [] key = "COLOR_THRESH" -> {<<"3", "0">>}
      [] key = "WIDTH_THRESHOLD" -> {<<"7">>}
      [] OTHER -> {<<"0", ".", "1">>}

CycleDelays == {[before |-> 0, elapsed |-> 10], [before |-> 30, elapsed |-> 10],
                [before |-> 30, elapsed |-> 60]}

BetweenCycles == \A n \in Threads : thread[n].pc \in {"unborn", "loop"}

NextLive ==
    \/ \E n \in Threads :
         \/ w_open(n) \/ w_read_first(n, {Narrow}) \/ w_estimate(n)
         \/ w_baseline(n) \/ w_loop(n) \/ w_read(n, {Narrow})
         \/ w_top(n) \/ w_bottom(n) \/ w_region(n) \/ w_sample(n)
         \/ w_rows(n) \/ w_flush(n) \/ w_evaluate(n)
         \/ w_publish(n, CycleDelays)
    \/ Tick
    \/ display_frame
    \/ \E k \in Keys :
         /\ BetweenCycles
         /\ current_entry = None
         /\ OthersAtDefault(k)
         /\ EntriesFresh
         /\ NoTimer
         /\ select_entry(k)
    \/ \E d \in NumpadKeys :
         BetweenCycles /\ numpad_input(d) /\ Typing(LiveTexts)
    \/ BetweenCycles /\ current_entry # None /\ clear_input
    \/ BetweenCycles /\ NoTimer /\ submit_value
    \/ BetweenCycles /\ NoTimer /\ reset_all_settings
    \/ reset_entry_colors

SpecLive == Init /\ [][NextLive]_vars

\* The steps of thread n that read a field of the config.
ReadsTop(n) == thread[n].pc = "top" /\ thread'[n].pc = "bottom"
ReadsBottom(n) == thread[n].pc = "bottom" /\ thread'[n].pc = "region"
Samples(n) == thread[n].pc = "sample" /\ thread'[n].pc = "rows"
Publishes(n) == thread[n].pc = "publish" /\ thread'[n].pc = "loop"

\* C24: a cycle uses the values the config holds when it reads them, so a
\* value submitted before the cycle began is the one the cycle uses: the
\* two margins, the row count, the colour threshold, the width threshold
\* and the frame rate.
C24_CycleUsesSubmittedValue ==
    [][\A n \in Threads :
          /\ ReadsTop(n) =>
                thread'[n].top_m =
                    (thread[n].frame.h * config["TOP_MARGIN_RATIO"].t) \div 100
          /\ ReadsBottom(n) =>
                thread'[n].bottom_m =
                    (thread[n].frame.h * config["BOTTOM_MARGIN_RATIO"].t)
                        \div 100
          /\ Samples(n) =>
                /\ Len(thread'[n].sample_ys) = config["NUM_ROWS"]
                /\ thread'[n].thresh = config["COLOR_THRESH"]
          /\ Evaluates(n) =>
                (thread'[n].status = "OK" <=>
                    /\ avg_width_1s.t - initial_width.t
                          <= config["WIDTH_THRESHOLD"].t
                    /\ initial_width.t - avg_width_1s.t
                          <= config["WIDTH_THRESHOLD"].t)
          /\ Publishes(n) =>
                \E d \in CycleDelays :
                    thread'[n].sleep_time =
                        Max0((1000 \div config["TARGET_FPS"]) - d.elapsed)]_vars

\* A cycle after TARGET_FPS was set to 10 has slept 90 of its 100 ms.
C24_Witness ==
    \E n \in Threads :
        /\ At(n, "loop")
        /\ config["TARGET_FPS"] = 10
        /\ settings_file = save_settings(config)
        /\ thread[n].sleep_time = 90

\* C27: the sleep of a cycle is never negative, it is zero when the cycle's
\* processing time is the budget 1 / TARGET_FPS or more, and otherwise
\* processing time and sleep add up to the budget.
C27_SleepsRemainder ==
    [][\A n \in Threads :
          Publishes(n) =>
              LET budget == 1000 \div config["TARGET_FPS"]
                  spent == thread'[n].processing
                  sleep == thread'[n].sleep_time
              IN /\ sleep >= 0
                 /\ spent >= budget => sleep = 0
                 /\ spent < budget => spent + sleep = budget]_vars

(***************************************************************************)
(* SpecSave: the operator changing the margins from the numpad, pressing   *)
(* Reset All, and ending the program with Escape or with POWEROFF.         *)
(***************************************************************************)
NextSave ==
    \/ \E k \in MarginKeys :
         /\ current_entry = None
         /\ EntriesFresh
         /\ NoTimer
         /\ select_entry(k)
    \/ \E d \in NumpadKeys : numpad_input(d) /\ Typing(CfgTexts)
    \/ current_entry # None /\ clear_input
    \/ NoTimer /\ submit_value
    \/ NoTimer /\ reset_all_settings
    \/ reset_entry_colors
    \/ DialogRoom /\ ask_poweroff_confirmation
    \/ poweroff_cancelled \/ poweroff_timeout \/ poweroff_confirmed
    \/ poweroff_stop \/ poweroff_shutdown \/ system_halt
    \/ exit_app \/ exit_release

SpecSave == Init /\ [][NextSave]_vars

\* The step of submit_value that applies the value of the entry.
AppliesValue ==
    /\ current_entry # None /\ current_entry' = None
    /\ timers' # timers
    /\ error_label' = error_label

LoadTexts(key) ==
    CASE key = "NUM_ROWS" -> {<<"3">>, <<"0">>}
      [] key = "TARGET_FPS" -> {<<"6", "0">>}
      [] key = "COLOR_THRESH" -> {<<"3", "0", ".", "5">>}
      [] key = "WIDTH_THRESHOLD" -> {<<"7", ".", "2", "5">>, JsonNaN}
      [] key = "TOP_MARGIN_RATIO" -> {<<"0", ".", "0">>}
      [] OTHER -> {<<"0", ".", "1">>}

LoadFiles ==
    {NoFile, <<Unreadable>>} \cup
    {<<[valid |-> TRUE, items |-> items]>> :
        items \in UNION {{f \in [ks -> UNION {LoadTexts(k) : k \in ks}] :
                             \A k \in ks : f[k] \in LoadTexts(k)} :
                         ks \in SUBSET Keys}}

InitLoad == \E file \in LoadFiles : InitFrom(file)

NextLoad == exit_app \/ exit_release

SpecLoad == InitLoad /\ [][NextLoad]_vars

\* C26: the config loaded at the launch has every default key; it is the
\* defaults when the file is absent or unreadable; otherwise a key the file
\* holds has the value the file gives it and a key the file lacks has its
\* default.  The file save_settings writes holds every key, and loading it
\* gives the config that was saved.
C26_LoadMergesDefaults ==
    /\ DOMAIN config = Keys
    /\ IF ui.pc = "idle" /\ ~destroyed
       THEN IF settings_file = NoFile \/ ~settings_file[1].valid
            THEN config = default_config
            ELSE \A k \in Keys :
                    IF k \in DOMAIN settings_file[1].items
                    THEN JsonText(k, config[k]) = settings_file[1].items[k]
                    ELSE config[k] = default_config[k]
       ELSE /\ settings_file # NoFile /\ settings_file[1].valid
            /\ DOMAIN settings_file[1].items = Keys
            /\ load_settings(settings_file) = config

\* A file that held NUM_ROWS and a NaN WIDTH_THRESHOLD only has been
\* loaded over the defaults and saved again.
C26_Witness ==
    /\ ui.pc = "exit_release"
    /\ config = [default_config EXCEPT !["NUM_ROWS"] = 3,
                                       !["WIDTH_THRESHOLD"] = NaN]
    /\ settings_file = save_settings(config)
    /\ load_settings(settings_file) = config

(***************************************************************************)
(* SpecMask: one worker thread with COLOR_THRESH 0.0 in the settings file, *)
(* calibrated on a frame of one colour, up to the mask of a cycle on a     *)
(* frame that differs from that colour in a rectangle.                     *)
(***************************************************************************)
InitMask ==
    InitFrom(save_settings([default_config EXCEPT !["COLOR_THRESH"] = F(0)]))

NextMask ==
    \E n \in Threads :
        \/ w_open(n) \/ w_read_first(n, {Plain(MaskSize)}) \/ w_estimate(n)
        \/ w_baseline(n) \/ w_loop(n) \/ w_read(n, PixelFrames(MaskSize))
        \/ w_top(n) \/ w_bottom(n) \/ w_region(n) \/ w_sample(n)

SpecMask == InitMask /\ [][NextMask]_vars

\* The pixels of the frame of thread n whose colour is not the background
\* colour.
Differing(n) ==
    {p \in Grid(thread[n].frame.h) :
        Float32(thread[n].frame.pixels[p]) # bg_mean}

\* Thread n has computed the mask of a frame with COLOR_THRESH 0.0.
Segmented(n) == At(n, "rows") /\ thread[n].thresh = F(0)

\* C28 as stated: with COLOR_THRESH 0 the mask, after the opening and the
\* closing, is true at every pixel whose colour differs from the background
\* colour.
C28_MaskCoversDiffering ==
    \A n \in Threads :
        Segmented(n) => Differing(n) \subseteq thread[n].mask.cleaned

\* C28 amended: with COLOR_THRESH 0 the thresholded mask is true exactly at
\* the pixels whose colour differs from the background colour.  After the
\* opening and the closing the mask is true at every differing pixel that
\* a kernel window (cut at the frame border) of differing pixels covers,
\* and it is false everywhere when the frame has no such window.
C28_MaskCoversDifferingWindows ==
    \A n \in Threads :
        Segmented(n) =>
            LET size == thread[n].frame.h
                full == {c \in Grid(size) : Window(c, size) \subseteq Differing(n)}
            IN /\ thread[n].mask.thresholded = Differing(n)
               /\ \A c \in full : Window(c, size) \subseteq thread[n].mask.cleaned
               /\ full = {} => thread[n].mask.cleaned = {}

\* One differing pixel in the middle of the frame is not in the mask.
C28_Witness ==
    \E n \in Threads :
        /\ Segmented(n)
        /\ Differing(n) = {<<3, 3>>}
        /\ thread[n].mask.thresholded = {<<3, 3>>}
        /\ thread[n].mask.cleaned = {}

(***************************************************************************)
(* SpecEstimate: one worker thread up to the estimate of the background    *)
(* colour from its first frame.                                            *)
(***************************************************************************)
NextEstimate ==
    \E n \in Threads :
        \/ w_open(n) \/ w_read_first(n, RowFrames(MaskSize)) \/ w_estimate(n)

SpecEstimate == Init /\ [][NextEstimate]_vars

\* Thread n takes the step from line 907 on.
Estimates(n) == At(n, "estimate") /\ thread'[n].pc = "baseline"

\* The pixels x of the row of colour c.
OfColour(row, c) == {x \in DOMAIN row : row[x] = c}

\* C29: the estimate is the per-channel mean of the pixels of the frame's
\* middle row (y = h // 2) that are in the larger of two clusters, which
\* luminance separates; a row of a colour a and of fewer pixels of a colour b
\* of another luminance gives a; the frame is left as it was.
C29_EstimatesFromMiddleRow ==
    [][\A n \in Threads :
        Estimates(n) =>
            LET frame == thread[n].frame
                xs == 0..(frame.h - 1)
                row == [x \in xs |-> frame.pixels[<<x, frame.h \div 2>>]]
                lum == [x \in xs |-> Gray(row[x])]
            IN /\ thread'[n].frame = frame
               /\ \E big \in (SUBSET xs) \ {{}} :
                    LET small == xs \ big
                    IN /\ Cardinality(big) >= Cardinality(small)
                       /\ \/ \A x \in big, z \in small : lum[x] < lum[z]
                          \/ \A x \in big, z \in small : lum[x] > lum[z]
                          \/ \A x \in xs, z \in xs : lum[x] = lum[z]
                       /\ bg_mean' = MeanColour(row, big)
               /\ \A a \in {Light, Dark, Dim}, b \in {Light, Dark, Dim} :
                    /\ OfColour(row, a) \cup OfColour(row, b) = xs
                    /\ Gray(a) # Gray(b)
                    /\ Cardinality(OfColour(row, a))
                         > Cardinality(OfColour(row, b))
                    => bg_mean' = Float32(a)]_vars

\* The estimate of a frame whose middle row has more light than dark pixels,
\* some of each and no others, is the light colour.
C29_Witness ==
    \E n \in Threads :
        /\ At(n, "baseline")
        /\ LET row == MiddleRow(thread[n].frame)
           IN /\ OfColour(row, Light) \cup OfColour(row, Dark) = DOMAIN row
              /\ OfColour(row, Dark) # {}
              /\ Cardinality(OfColour(row, Light))
                   > 2 * Cardinality(OfColour(row, Dark))
        /\ thread[n].frame.pixels[<<0, 0>>] = Elsewhere
        /\ bg_mean = Float32(Light)

(***************************************************************************)
(* SpecGetter: one run of the calibration tool, with or without a file     *)
(* left by an earlier run.                                                 *)
(***************************************************************************)
EarlierFiles == {NoFile, BgJson(<<1234, 5678, 9012>>)}

InitGetter ==
    /\ InitGui(NoFile)
    /\ getter = NotRun
    /\ bg_color_file \in EarlierFiles
    /\ script = [NotLaunched EXCEPT !.pc = "off"]

NextGetter ==
    \/ g_read({[h |-> CropSize, pixels |-> Banded(row, CropSize)] :
                 row \in [0..(CropSize - 1) -> {Light, Dark, Dim}]})
    \/ g_select
    \/ g_save

SpecGetter == InitGetter /\ [][NextGetter]_vars

\* The tool returns in this step.
Returns == getter.pc # "done" /\ getter'.pc = "done"

\* C30: a run that cannot read the first frame, or whose rectangle has no
\* width or no height, returns and leaves the file as it was, absent or not;
\* any other run writes the fields b, g and r and no other, which
\* load_bg_mean reads back as the mean blue, green and red of the
\* rectangle, in this order.
C30_FailsWithoutFile ==
    [][Returns =>
        LET roi == getter'.roi
            frame == getter'.frame
            failed == frame = NoFrame \/ roi[3] = 0 \/ roi[4] = 0
            inside == {p \in DOMAIN frame.pixels :
                         /\ roi[1] <= p[1] /\ p[1] < roi[1] + roi[3]
                         /\ roi[2] <= p[2] /\ p[2] < roi[2] + roi[4]}
        IN IF failed
           THEN bg_color_file' = bg_color_file
           ELSE /\ DOMAIN bg_color_file'[1].items = {"b", "g", "r"}
                /\ load_bg_mean(bg_color_file')
                     = MeanColour(frame.pixels, inside)]_vars

\* A run has written a mean whose blue, green and red differ, over a file
\* of an earlier run.
C30_WitnessWritten ==
    /\ getter.pc = "done"
    /\ getter.roi = <<0, 0, 1, 2>>
    /\ getter.frame.pixels[<<0, 1>>] = Dim
    /\ load_bg_mean(bg_color_file) = <<7500, 8000, 8500>>

\* A run with a rectangle of no height has returned and the file of the
\* earlier run is as it was.
C30_Witness ==
    /\ getter.pc = "done"
    /\ getter.roi[3] > 0 /\ getter.roi[4] = 0
    /\ bg_color_file = BgJson(<<1234, 5678, 9012>>)

(***************************************************************************)
(* SpecStop: the script variant with its Esc key, and the GUI variant with *)
(* one worker thread and exit, each loop scheduled: a step of a loop that  *)
(* can be taken eventually is.                                             *)
(***************************************************************************)
InitStop ==
    /\ InitGui(NoFile)
    /\ getter = [NotRun EXCEPT !.pc = "off"]
    /\ bg_color_file = NoFile
    /\ script = NotLaunched

NextStop ==
    \/ m_open \/ m_loop \/ m_read \/ m_show \/ m_release \/ press_esc
    \/ \E n \in Threads : Worker(n, {Narrow})
    \/ exit_app \/ exit_release

SpecStop ==
    /\ InitStop /\ [][NextStop]_vars
    /\ WF_vars(m_loop) /\ WF_vars(m_read) /\ WF_vars(m_show)
    /\ WF_vars(m_release)
    /\ WF_vars(exit_release)
    /\ WF_vars(\E n \in Threads : w_loop(n) \/ w_read(n, {Narrow}))

\* The GUI variant: once the flag is down, no worker thread stays between
\* the loop test and the read.
GuiStopObserved ==
    ~running ~> (destroyed \/ \A n \in Threads : thread[n].pc \notin {"loop", "read"})

\* C31: a stop request is followed by the end of the loop with the frame
\* source released, whatever the reads return: in the script variant an Esc
\* key press, in the GUI variant the flag set to false.
C31_StopRequestEndsLoop ==
    /\ script.esc ~> (script.pc = "stopped" /\ script.cap = "released")
    /\ GuiStopObserved

\* The step of thread n that averages and clears the buffer.
Flushes(n) ==
    /\ thread[n].pc = "flush" /\ thread'[n].pc = "evaluate"
    /\ FlushDue(since_last)

\* C32: a flush finds at least one sample in the buffer, whatever restarts
\* come between the steps of the worker.
C32_FlushFindsSample ==
    [][\A n \in Threads : Flushes(n) => width_buffer # <<>>]_vars

(***************************************************************************)
(* SpecUnknown: the operator at the settings panel of a program launched   *)
(* with a settings file that holds a field the defaults do not declare.    *)
(***************************************************************************)
Undeclared == "EXPOSURE"

UnknownFiles ==
    {<<[valid |-> TRUE, items |-> items]>> :
        items \in {[k \in {Undeclared} |-> <<"0", ".", "5">>],
                   [k \in {Undeclared, "NUM_ROWS"} |->
                      IF k = Undeclared THEN <<"0", ".", "5">> ELSE <<"3">>]}}

UnknownTexts(key) ==
    CASE key = "NUM_ROWS" -> {<<"7">>, <<"0">>}
      [] key = Undeclared -> {<<"9", ".", "2", "5">>, <<"a">>}
      [] OTHER -> {<<"0", ".", "1">>}

InitUnknown == \E file \in UnknownFiles : InitFrom(file)

NextUnknown ==
    \/ \E k \in {"NUM_ROWS", Undeclared} :
         /\ current_entry = None
         /\ NoTimer
         /\ select_entry(k)
    \/ \E d \in NumpadKeys : numpad_input(d) /\ Typing(UnknownTexts)
    \/ \E ch \in KeyboardKeys :
         /\ current_entry # None
         /\ keypress(ch)
         /\ Typing(UnknownTexts)
         /\ \A k \in DOMAIN entries \ {current_entry} :
              entries'[k] = entries[k]
    \/ current_entry # None /\ clear_input
    \/ NoTimer /\ submit_value
    \/ cancel_input
    \/ NoTimer /\ reset_all_settings
    \/ reset_entry_colors

SpecUnknown == InitUnknown /\ [][NextUnknown]_vars

\* C33: the config holds declared fields only, whatever the settings file
\* held at the launch, and no value is written to a field that is not
\* declared.
C33_UnknownKeysRejected ==
    /\ [](DOMAIN config \subseteq Keys)
    /\ [][\A k \in (DOMAIN config \cap DOMAIN config') \ Keys :
            config'[k] = config[k]]_vars

\* The first part of C33 alone, and the second.
C33_LoadAddsNoKey == DOMAIN config \subseteq Keys
C33_SubmitWritesNoUnknown ==
    [][\A k \in (DOMAIN config \cap DOMAIN config') \ Keys :
         config'[k] = config[k]]_vars

\* Thread n belongs to a session that start_measurement has replaced: the
\* running flag was set again for a new session (line 887) after n started.
Superseded(n) ==
    \/ video_thread > n
    \/ video_thread = n /\ ui.pc = "join"

ReleaseStep(n) == thread[n].pc = "release" /\ thread'[n].pc = "clear"
ClearStep(n) == thread[n].pc = "clear" /\ thread'[n].pc = "done"

\* C34: the shutdown steps of a worker of a replaced session leave the new
\* session alone: its release (line 1050) does not release the capture the
\* new worker opened, and its running = False (line 1051) does not clear the
\* flag that start_measurement has set for the new session.
C34_OldShutdownSparesNewSession ==
    [][\A n \in Threads :
         Superseded(n) =>
           /\ ClearStep(n) => running' = running
           /\ ReleaseStep(n) /\ cap > n => cap_state'[cap] = cap_state[cap]]_vars

\* The two halves of C34 apart.
C34_OldClearSparesFlag ==
    [][\A n \in Threads :
         Superseded(n) /\ ClearStep(n) => running' = running]_vars
C34_OldReleaseSparesSource ==
    [][\A n \in Threads :
         Superseded(n) /\ ReleaseStep(n) /\ cap > n
           => cap_state'[cap] = cap_state[cap]]_vars

\* Thread n has run and is over: it returned (after the loop or after a
\* failed first read) or an exception ended it.
Terminated(n) == thread[n].pc \in {"failed", "done", "crashed"}

\* C35: the running flag is true only while a worker thread is alive (the
\* moment between line 887 and the start of the thread apart), and a worker
\* that has terminated has left the flag false and its capture released.
C35_RunningOnlyWhileAlive ==
    /\ running /\ ui.pc # "join" => \E n \in Threads : Alive(n)
    /\ \A n \in Threads :
         Terminated(n) =>
           /\ cap_state[n] = "released"
           /\ n = video_thread /\ ui.pc # "join" => ~running

\* C35 for the worker whose first read failed.
C35_FailedFirstReadStops ==
    \A n \in Threads :
      thread[n].pc = "failed" /\ n = video_thread /\ ui.pc # "join"
        => ~running /\ cap_state[n] = "released"

\* A float of the config lies in [lo, hi], both in hundredths.
Within(x, lo, hi) == ~x.nan /\ lo <= x.t /\ x.t <= hi

\* C36: the config satisfies the domain constraints of its six fields:
\* NUM_ROWS an integer in [1, 100], TARGET_FPS an integer in [1, 60],
\* COLOR_THRESH in [1, 500], WIDTH_THRESHOLD in [0.1, 100], each margin ratio
\* in [0, 0.9] and the two margins together below 1.0.
C36_ConfigInDomain ==
    /\ config["NUM_ROWS"] \in 1..100
    /\ config["TARGET_FPS"] \in 1..60
    /\ Within(config["COLOR_THRESH"], 100, 50000)
    /\ Within(config["WIDTH_THRESHOLD"], 10, 10000)
    /\ \A k \in MarginKeys : Within(config[k], 0, 90)
    /\ config["TOP_MARGIN_RATIO"].t + config["BOTTOM_MARGIN_RATIO"].t < 100

\* C36 for the fields whose range test a NaN passes: no float of the config
\* is a NaN.
C36_NoNaN ==
    \A k \in Keys \ {"NUM_ROWS", "TARGET_FPS"} : ~config[k].nan

\* C37: Reset All sets the config to exactly the defaults, clears the
\* selection, and leaves a settings file that holds the active config (a
\* launch on it would load the config as it is now).
C37_ResetRestoresAndSaves ==
    [][reset_all_settings =>
         /\ config' = default_config
         /\ current_entry' = None
         /\ load_settings(settings_file') = config']_vars

\* The parts of C37 apart: the config and the selection, and the file.
C37_ResetRestoresDefaults ==
    [][reset_all_settings =>
         config' = default_config /\ current_entry' = None]_vars
C37_ResetLeavesFileOfConfig ==
    [][reset_all_settings => load_settings(settings_file') = config']_vars

\* poweroff_system is entered: its save is done and its countdown begins.
PoweroffBegins == ~ui.countdown /\ ui'.countdown

\* A callback of root.after(10000, self.poweroff_cancelled) runs and hides
\* the confirmation that was showing.
TimeoutHides ==
    /\ timers'["poweroff_cancelled"] < timers["poweroff_cancelled"]
    /\ confirm_visible /\ ~confirm_visible'

\* The callbacks have one delay, so they run in the order of the presses
\* that scheduled them, and the callback of the press that showed the
\* confirmation is pending while the confirmation shows: the callback that
\* runs is the one of the most recent press only when no other is pending.
OfLatestPress == timers["poweroff_cancelled"] = 1

\* C38: poweroff_system is entered only by YES while the confirmation that
\* POWEROFF showed is showing (not after NO or after the timeout hid it),
\* and a timeout hides the confirmation only ten seconds after the most
\* recent press of POWEROFF: the callback left over from an earlier press
\* does not hide it.
C38_PoweroffOnlyConfirmed ==
    [][/\ PoweroffBegins => confirm_visible /\ ~confirm_visible'
       /\ TimeoutHides => OfLatestPress]_vars

\* The two halves of C38 apart.
C38_BeginsOnlyByYes ==
    [][PoweroffBegins => confirm_visible /\ ~confirm_visible']_vars
C38_HiddenOnlyByLatestTimer == [][TimeoutHides => OfLatestPress]_vars

\* C39: while a field is selected its entry is enabled and every other
\* entry is disabled.
C39_SelectedEntryEditable ==
    current_entry # None =>
        \A k \in DOMAIN entries :
            entries[k].state = IF k = current_entry THEN "normal"
                               ELSE "disabled"

\* C39 for the rejected submission: the step that rejects a value leaves the
\* field selected and its entry enabled, and so does every later step that
\* leaves the selection as it is.
C39_RejectedStaysEditable ==
    [][(current_entry # None /\ current_entry' = current_entry
          /\ entries[current_entry].state = "normal")
         => entries'[current_entry].state = "normal"]_vars

====
